---- MODULE Spec2Model ----
(***************************************************************************)
(* Model of thepipe's extraction pipeline (src/thepipe/scraper.py and      *)
(* src/thepipe/core.py).                                                   *)
(*                                                                         *)
(*   Spec    : the call tree below scrape_url, scrape_file,                *)
(*             scrape_directory, scrape_zip, scrape_github, scrape_youtube *)
(*             and scrape_video, as a stack of frames with Python's        *)
(*             exception propagation and the temporary files it creates.   *)
(*   SpecPdf : scrape_pdf's VLM branch, one worker task per page, results  *)
(*             collected with as_completed and reassembled by page index.  *)
(*   SpecExtract : the type-specific strategies (scrape_plaintext,         *)
(*             scrape_html, scrape_pdf without a client, scrape_ipynb,     *)
(*             scrape_pptx, scrape_docx, scrape_audio, scrape_spreadsheet, *)
(*             scrape_image, scrape_tweet) as functions of a file's        *)
(*             content.                                                    *)
(*   SpecCall : detect_source_mimetype, Chunk.to_json and from_json,       *)
(*             calculate_tokens and the chunking methods, each called on   *)
(*             its own. thepipe/chunker.py is not part of the sources at   *)
(*             hand: the chunking methods follow their description.        *)
(*                                                                         *)
(* Text is a sequence of one-character strings, so that strip(),           *)
(* startswith() and endswith() are computed as Python computes them.       *)
(***************************************************************************)
EXTENDS Integers, Sequences, FiniteSets, TLC

\* ------------------------------------------------------------------ bounds
MaxPages == 3
MaxCpu == 1
MaxEntries == 2
MaxSegments == 2
MaxScreenshots == 1
MaxImages == 1
MaxUnits == 2
MaxShapes == 1
MaxItems == 3
MaxText == 3
MaxSections == 2

\* ---------------------------------------------------------------- strings
RECURSIVE LStrip(_)
LStrip(s) ==
    IF s = <<>> THEN <<>>
    ELSE IF Head(s) \in {" ", "\n", "\t"} THEN LStrip(Tail(s)) ELSE s

RECURSIVE RStrip(_)
RStrip(s) ==
    IF s = <<>> THEN <<>>
    ELSE IF s[Len(s)] \in {" ", "\n", "\t"} THEN RStrip(SubSeq(s, 1, Len(s) - 1)) ELSE s

\* str.strip()
Strip(s) == RStrip(LStrip(s))

\* str.startswith(p), str.endswith(p)
StartsWith(s, p) == Len(s) >= Len(p) /\ SubSeq(s, 1, Len(p)) = p
EndsWith(s, p) == Len(s) >= Len(p) /\ SubSeq(s, Len(s) - Len(p) + 1, Len(s)) = p

\* s[n:] and s[:-n]
DropFirst(s, n) == SubSeq(s, n + 1, Len(s))
DropLast(s, n) == SubSeq(s, 1, Len(s) - n)

\* the backtick character, which a TLA+ string cannot hold, is written "^"
Fence == <<"^", "^", "^">>
FenceMarkdown == Fence \o <<"m", "a", "r", "k", "d", "o", "w", "n">>

\* ------------------------------------------------------------------ Chunk
NoImage == -1

\* Chunk.__init__: text = text or "", images = list(images) if images else []
Chunk(path, text, images) == [path |-> path, text |-> text, images |-> images]

\* ------------------------------------------------- scrape_pdf, VLM branch
\* replies of the model (response.choices[0].message.content); None and ""
\* are both falsy and are both the empty sequence here
\* outcome of openai_client.chat.completions.create for one page: the call
\* raises, or returns a reply
ModelOutcomes ==
    {[ok |-> FALSE, content |-> <<>>]}
    \cup {[ok |-> TRUE, content |-> r] :
            r \in {<<>>, <<" ">>, <<"A">>, FenceMarkdown \o <<"\n", "B", "\n">> \o Fence}}

NoExc == [type |-> "none", page |-> -1]

VARIABLES
    num_pages,              \* len(doc)
    include_input_images,
    include_output_images,
    cpu_count,              \* os.cpu_count() or 1
    model_out,              \* page -> outcome of the model call for that page
    submitted,              \* number of executor.submit calls made so far
    task,                   \* page -> "none" | "queued" | "running" | "done" | "raised"
    task_result,            \* page -> (page_num, llm_response, image) of a done task
    task_exc,               \* page -> exception of a raised task
    collected,              \* futures already yielded by as_completed
    page_results,           \* OrderedDict, as the sequence of its items in insertion order
    pdf_pc,                 \* position of the thread that called scrape_pdf
    pdf_exc,                \* exception propagating out of scrape_pdf
    pdf_chunks              \* the list scrape_pdf returns

pdfVars == <<num_pages, include_input_images, include_output_images, cpu_count,
             model_out, submitted, task, task_result, task_exc, collected,
             page_results, pdf_pc, pdf_exc, pdf_chunks>>

VARIABLES
    root,                   \* the call made by the user: function and arguments
    stack,                  \* call stack, innermost frame last
    exc,                    \* the exception being propagated, or "none"
    ret,                    \* value returned by the frame that was popped last
    temp_fs,                \* temporary directories and files that exist now
    temp_log,               \* every temporary resource created so far
    chunk_log,              \* every application of a chunking method so far
    tmp_bytes,              \* bytes written to the download's temporary file
    tier_log                \* the web tiers scrape_url has run, in order

scrapeVars == <<root, stack, exc, ret, temp_fs, temp_log, chunk_log, tmp_bytes, tier_log>>

VARIABLES
    ex_call,                \* the strategy called and its input
    ex_pc,                  \* "call" before the strategy ran, "done" after
    ex_chunks               \* the chunks the strategy returned

extractVars == <<ex_call, ex_pc, ex_chunks>>

VARIABLES
    fn_call,                \* the pure function called and its arguments
    fn_pc,                  \* "call" before the function ran, "done" after
    fn_out                  \* what the function returned

callVars == <<fn_call, fn_pc, fn_out>>

vars == <<pdfVars, scrapeVars, extractVars, callVars>>

Pages == 0 .. (num_pages - 1)


\* the pixmap rendered for page p
PageImage(p) == p

\* the fence stripping of _process_page, applied to a non-empty reply
StripFences(llm_response) ==
    LET s1 == Strip(llm_response)
        s2 == IF StartsWith(s1, FenceMarkdown) THEN DropFirst(s1, Len(FenceMarkdown))
              ELSE IF StartsWith(s1, Fence) THEN DropFirst(s1, Len(Fence))
              ELSE s1
    IN  IF EndsWith(s2, Fence) THEN DropLast(s2, Len(Fence)) ELSE s2

\* _process_page(page_num): what the task returns or raises, how often it
\* renders the page (get_pixmap) and the image parts of the message it sends
PageTaskSendRendered(input_images, output_images, out, p) ==
    LET rendered == input_images \/ output_images
        image == IF rendered THEN PageImage(p) ELSE NoImage
        trace == [renders |-> IF rendered THEN 1 ELSE 0,
                  sent |-> IF rendered THEN <<image>> ELSE <<>>]
    IN  IF ~out.ok
        THEN trace @@ [raised |-> TRUE, exc |-> [type |-> "APIError", page |-> p],
                       value |-> <<p, <<>>, NoImage>>]
        ELSE IF out.content = <<>>
        THEN trace @@ [raised |-> TRUE, exc |-> [type |-> "RuntimeError", page |-> p],
                       value |-> <<p, <<>>, NoImage>>]
        ELSE trace @@ [raised |-> FALSE, exc |-> NoExc,
                       value |-> <<p, StripFences(out.content),
                                   IF output_images THEN image ELSE NoImage>>]

PageTask(input_images, output_images, out, p) ==
    LET rendered == input_images \/ output_images
        image == IF rendered THEN PageImage(p) ELSE NoImage
        trace == [renders |-> IF rendered THEN 1 ELSE 0,
                  sent |-> IF rendered /\ input_images THEN <<image>> ELSE <<>>]
    IN  IF ~out.ok
        THEN trace @@ [raised |-> TRUE, exc |-> [type |-> "APIError", page |-> p],
                       value |-> <<p, <<>>, NoImage>>]
        ELSE IF out.content = <<>>
        THEN trace @@ [raised |-> TRUE, exc |-> [type |-> "RuntimeError", page |-> p],
                       value |-> <<p, <<>>, NoImage>>]
        ELSE trace @@ [raised |-> FALSE, exc |-> NoExc,
                       value |-> <<p, StripFences(out.content),
                                   IF output_images THEN image ELSE NoImage>>]

\* the task of page p of the document at hand
ProcessPage(p) == PageTask(include_input_images, include_output_images, model_out[p], p)


pdfInputs == <<num_pages, include_input_images, include_output_images, cpu_count, model_out>>

\* futures = [executor.submit(_process_page, p) for p in range(num_pages)]
Submit ==
    /\ pdf_pc = "submit"
    /\ IF submitted < num_pages
       THEN /\ task' = [task EXCEPT ![submitted] = "queued"]
            /\ submitted' = submitted + 1
            /\ UNCHANGED pdf_pc
       ELSE /\ pdf_pc' = "collect"
            /\ UNCHANGED <<task, submitted>>
    /\ UNCHANGED <<pdfInputs, task_result, task_exc, collected, page_results,
                   pdf_exc, pdf_chunks>>
    /\ UNCHANGED <<scrapeVars, extractVars, callVars>>


\* a pool worker takes the oldest queued work item
StartTask(p) ==
    /\ task[p] = "queued"
    /\ \A q \in Pages : task[q] = "queued" => p <= q
    /\ Cardinality({r \in Pages : task[r] = "running"}) < cpu_count * 2
    /\ task' = [task EXCEPT ![p] = "running"]
    /\ UNCHANGED <<pdfInputs, submitted, task_result, task_exc, collected,
                   page_results, pdf_pc, pdf_exc, pdf_chunks>>
    /\ UNCHANGED <<scrapeVars, extractVars, callVars>>

\* a worker that stores its result in the results map itself
FinishTaskWritesMap(p) ==
    /\ task[p] = "running"
    /\ LET r == ProcessPage(p)
       IN  IF r.raised
           THEN /\ task' = [task EXCEPT ![p] = "raised"]
                /\ task_exc' = [task_exc EXCEPT ![p] = r.exc]
                /\ UNCHANGED <<task_result, page_results>>
           ELSE /\ task' = [task EXCEPT ![p] = "done"]
                /\ task_result' = [task_result EXCEPT ![p] = r.value]
                /\ page_results' = Append(page_results, r.value)
                /\ UNCHANGED task_exc
    /\ UNCHANGED <<pdfInputs, submitted, collected, pdf_pc, pdf_exc, pdf_chunks>>
    /\ UNCHANGED <<scrapeVars, extractVars, callVars>>

\* the worker finishes _process_page(p) and sets the future's result or exception
FinishTask(p) ==
    /\ task[p] = "running"
    /\ LET r == ProcessPage(p)
       IN  IF r.raised
           THEN /\ task' = [task EXCEPT ![p] = "raised"]
                /\ task_exc' = [task_exc EXCEPT ![p] = r.exc]
                /\ UNCHANGED task_result
           ELSE /\ task' = [task EXCEPT ![p] = "done"]
                /\ task_result' = [task_result EXCEPT ![p] = r.value]
                /\ UNCHANGED task_exc
    /\ UNCHANGED <<pdfInputs, submitted, collected, page_results, pdf_pc,
                   pdf_exc, pdf_chunks>>
    /\ UNCHANGED <<scrapeVars, extractVars, callVars>>

\* a collector that catches the task's exception and stores a placeholder
CollectSwallow(p) ==
    /\ pdf_pc = "collect"
    /\ p \notin collected
    /\ task[p] \in {"done", "raised"}
    /\ collected' = collected \cup {p}
    /\ page_results' = Append(page_results,
                               IF task[p] = "raised" THEN <<p, <<>>, NoImage>>
                               ELSE task_result[p])
    /\ UNCHANGED <<pdf_exc, pdf_pc>>
    /\ UNCHANGED <<pdfInputs, submitted, task, task_result, task_exc, pdf_chunks>>
    /\ UNCHANGED <<scrapeVars, extractVars, callVars>>

\* one iteration of "for fut in as_completed(futures)": fut.result() either
\* returns the tuple, stored under its page number, or re-raises
Collect(p) ==
    /\ pdf_pc = "collect"
    /\ p \notin collected
    /\ task[p] \in {"done", "raised"}
    /\ collected' = collected \cup {p}
    /\ IF task[p] = "raised"
       THEN /\ pdf_exc' = task_exc[p]
            /\ pdf_pc' = "shutdown"
            /\ UNCHANGED page_results
       ELSE /\ page_results' = Append(page_results, task_result[p])
            /\ UNCHANGED <<pdf_exc, pdf_pc>>
    /\ UNCHANGED <<pdfInputs, submitted, task, task_result, task_exc, pdf_chunks>>
    /\ UNCHANGED <<scrapeVars, extractVars, callVars>>

\* as_completed is exhausted: the with block is left normally
CollectDone ==
    /\ pdf_pc = "collect"
    /\ collected = Pages
    /\ pdf_pc' = "shutdown"
    /\ UNCHANGED <<pdfInputs, submitted, task, task_result, task_exc, collected,
                   page_results, pdf_exc, pdf_chunks>>
    /\ UNCHANGED <<scrapeVars, extractVars, callVars>>

\* sorted(page_results): the keys in ascending order
RECURSIVE SortedItems(_, _)
SortedItems(items, from) ==
    IF from > MaxPages THEN <<>>
    ELSE SelectSeq(items, LAMBDA it : it[1] = from) \o SortedItems(items, from + 1)

\* the items as they were inserted, without sorted()
SortedPageResultsInsertionOrder(items) == items

SortedPageResults(items) == SortedItems(items, 0)

\* chunks.append(Chunk(path=file_path, text=txt, images=[img] if img else []))
RECURSIVE BuildChunks(_)
BuildChunks(items) ==
    IF items = <<>> THEN <<>>
    ELSE LET it == Head(items)
         IN  <<Chunk("doc.pdf", it[2], IF it[3] # NoImage THEN <<it[3]>> ELSE <<>>)>>
             \o BuildChunks(Tail(items))

\* an exit that does not join the workers, as shutdown(wait=False) would
ShutdownNoWait ==
    /\ pdf_pc = "shutdown"
    /\ IF pdf_exc # NoExc
       THEN /\ pdf_pc' = "raised"
            /\ UNCHANGED pdf_chunks
       ELSE /\ pdf_pc' = "returned"
            /\ pdf_chunks' = BuildChunks(SortedPageResults(page_results))
    /\ UNCHANGED <<pdfInputs, submitted, task, task_result, task_exc, collected,
                   page_results, pdf_exc>>
    /\ UNCHANGED <<scrapeVars, extractVars, callVars>>

\* ThreadPoolExecutor.__exit__: shutdown(wait=True) joins the workers, which
\* first drain the work queue; then the exception propagates, or the chunks
\* are assembled and returned
Shutdown ==
    /\ pdf_pc = "shutdown"
    /\ \A p \in Pages : task[p] \in {"done", "raised"}
    /\ IF pdf_exc # NoExc
       THEN /\ pdf_pc' = "raised"
            /\ UNCHANGED pdf_chunks
       ELSE /\ pdf_pc' = "returned"
            /\ pdf_chunks' = BuildChunks(SortedPageResults(page_results))
    /\ UNCHANGED <<pdfInputs, submitted, task, task_result, task_exc, collected,
                   page_results, pdf_exc>>
    /\ UNCHANGED <<scrapeVars, extractVars, callVars>>

\* ------------------------------------------------------- chunking methods
\* chunk_by_page: one output chunk per input chunk
chunk_by_page(chunks) == chunks

RECURSIVE JoinLines(_)
JoinLines(texts) ==
    IF texts = <<>> THEN <<>>
    ELSE IF Len(texts) = 1 THEN texts[1]
    ELSE texts[1] \o <<"\n">> \o JoinLines(Tail(texts))

RECURSIVE ConcatImages(_)
ConcatImages(chunks) ==
    IF chunks = <<>> THEN <<>> ELSE Head(chunks).images \o ConcatImages(Tail(chunks))

TextsOf(chunks) == [i \in 1 .. Len(chunks) |-> chunks[i].text]

\* chunk_by_document: all input chunks merged into exactly one chunk
chunk_by_documentOfTexts(chunks) ==
    IF chunks = <<>> THEN <<>>
    ELSE <<Chunk(chunks[1].path, JoinLines(TextsOf(chunks)),
                 ConcatImages(SelectSeq(chunks, LAMBDA c : c.text # <<>>)))>>

chunk_by_document(chunks) ==
    <<Chunk(IF chunks = <<>> THEN <<>> ELSE chunks[1].path,
            JoinLines(TextsOf(chunks)), ConcatImages(chunks))>>

ChunkingMethods == {"chunk_by_page", "chunk_by_document"}

\* chunking_method(scraped_chunks)
ApplyChunking(cm, chunks) ==
    IF cm = "chunk_by_document" THEN chunk_by_document(chunks) ELSE chunk_by_page(chunks)

\* ------------------------------------------------------------ media types
\* a media type "top/sub" + ext, kept in three parts so that the prefix
\* tests of scrape_file are computed, not looked up
Mime(top, sub, ext) == [top |-> top, sub |-> sub, ext |-> ext]

MimeTypes ==
    [pdf |-> Mime("application", "pdf", ""),
     docx |-> Mime("application", "vnd.openxmlformats-officedocument.wordprocessingml.document", ""),
     pptx |-> Mime("application", "vnd.openxmlformats-officedocument.presentationml.presentation", ""),
     xlsx |-> Mime("application", "vnd.openxmlformats-officedocument.spreadsheetml.sheet", ""),
     msExcel |-> Mime("application", "vnd.ms-excel", ""),
     msExcelMacro |-> Mime("application", "vnd.ms-excel", ".sheet.macroEnabled.12"),
     ipynb |-> Mime("application", "x-ipynb+json", ""),
     zip |-> Mime("application", "zip", ""),
     xZip |-> Mime("application", "x-zip-compressed", ""),
     octet |-> Mime("application", "octet-stream", ""),
     png |-> Mime("image", "png", ""),
     mp4 |-> Mime("video", "mp4", ""),
     mpeg |-> Mime("audio", "mpeg", ""),
     html |-> Mime("text", "html", ""),
     plain |-> Mime("text", "plain", ""),
     none |-> Mime("", "", "")]

\* the if / elif chain of scrape_file: the strategy chosen for a media type
Strategy(m) ==
    IF m = MimeTypes.pdf THEN "scrape_pdf"
    ELSE IF m = MimeTypes.docx THEN "scrape_docx"
    ELSE IF m = MimeTypes.pptx THEN "scrape_pptx"
    ELSE IF m.top = "image" THEN "scrape_image"
    ELSE IF (m.top = "application" /\ m.sub = "vnd.ms-excel") \/ m = MimeTypes.xlsx
         THEN "scrape_spreadsheet"
    ELSE IF m = MimeTypes.ipynb THEN "scrape_ipynb"
    ELSE IF m = MimeTypes.zip \/ m = MimeTypes.xZip THEN "scrape_zip"
    ELSE IF m.top = "video" THEN "scrape_video"
    ELSE IF m.top = "audio" THEN "scrape_audio"
    ELSE IF m.top = "text" /\ m.sub = "html" THEN "scrape_html"
    ELSE IF m.top = "text" THEN "scrape_plaintext"
    ELSE "fallback_plaintext"

\* scrape_spreadsheet accepts exactly these two source types
SpreadsheetAccepts(m) == m = MimeTypes.msExcel \/ m = MimeTypes.xlsx

\* -------------------------------------------------------------- sources
\* A file system entry.  kind: "file", "dir" or "other" (neither is_file()
\* nor is_dir()); ignored: the name matches FILES_TO_IGNORE / FOLDERS_TO_IGNORE;
\* matches: the path matches the inclusion pattern; outcome: what reading
\* it does ("chunk": one chunk with text, "empty": one chunk without text,
\* or the exception raised); entries: the listing of a directory or archive.
Node(kind, ignored, matches, mime, outcome, entries) ==
    [kind |-> kind, ignored |-> ignored, matches |-> matches, mime |-> mime,
     outcome |-> outcome, entries |-> entries]

File(mime, outcome) == Node("file", FALSE, TRUE, mime, outcome, <<>>)
Dir(entries) == Node("dir", FALSE, TRUE, MimeTypes.none, "ok", entries)
ZipFile(entries) == Node("file", FALSE, TRUE, MimeTypes.zip, "ok", entries)

Raising == {"Exception", "PermissionError", "ValueError", "RuntimeError", "BadZipFile"}


SeqUpTo(S, n) == UNION {[1 .. k -> S] : k \in 0 .. n}

\* the listing of a nested directory or archive, or of a repository
SubListings ==
    { <<>>,
      <<File(MimeTypes.plain, "chunk")>>,
      <<File(MimeTypes.pdf, "Exception")>>,
      <<File(MimeTypes.plain, "PermissionError"), File(MimeTypes.plain, "chunk")>> }

\* the entries of the directory the traversal starts from
\* the files, directories and archives a listing is made of
Entries ==
    { File(MimeTypes.plain, "chunk"),
      File(MimeTypes.plain, "PermissionError"),
      File(MimeTypes.pdf, "Exception"),
      File(MimeTypes.octet, "Exception"),
      Node("file", FALSE, FALSE, MimeTypes.plain, "chunk", <<>>),
      Node("file", TRUE, TRUE, MimeTypes.octet, "chunk", <<>>) }
    \cup {Dir(l) : l \in SubListings}
    \cup {ZipFile(l) : l \in SubListings}
    \cup { Node("dir", TRUE, TRUE, MimeTypes.none, "ok", <<>>),
           Node("dir", FALSE, TRUE, MimeTypes.none, "PermissionError", <<>>),
           Node("file", FALSE, TRUE, MimeTypes.zip, "BadZipFile", <<>>),
           Node("other", FALSE, TRUE, MimeTypes.none, "ok", <<>>) }

\* ------------------------------------------------------------ call stack
Frame(fn, node, path, cm, pat) ==
    [fn |-> fn, node |-> node, path |-> path, cm |-> cm, pat |-> pat,
     pc |-> "start", idx |-> 1, acc |-> <<>>, tmp |-> 0]

Top == stack[Len(stack)]
Pop == SubSeq(stack, 1, Len(stack) - 1)
SetTop(f) == [stack EXCEPT ![Len(stack)] = f]
Push(caller, callee) == Append(SetTop(caller), callee)

NoRet == [set |-> FALSE, val |-> <<>>]
Ret(val) == [set |-> TRUE, val |-> val]

Running == stack # <<>>
Returned == stack = <<>> /\ exc = "none"
Raised == stack = <<>> /\ exc # "none"

\* ---------------------------------------------------------- scrape_file
\* the chunks a strategy without nested calls returns for a file
LeafChunks(path, node) ==
    IF node.outcome = "empty" THEN <<Chunk(path, <<>>, <<>>)>>
    ELSE <<Chunk(path, <<"A">>, <<>>)>>

\* does the strategy chosen for the file raise
LeafRaises(node) ==
    \/ node.outcome \in Raising
    \/ Strategy(node.mime) = "scrape_spreadsheet" /\ ~SpreadsheetAccepts(node.mime)

\* scrape_file up to the call of the strategy: strategies with nested calls
\* get a frame, the others run here; only the final else branch has a try
FileDispatch ==
    /\ Running /\ exc = "none"
    /\ Top.fn = "scrape_file" /\ Top.pc = "start"
    /\ LET f == Top
           strategy == Strategy(f.node.mime)
       IN  IF strategy = "scrape_zip"
           THEN /\ stack' = Push([f EXCEPT !.pc = "await"],
                                 Frame("scrape_zip", f.node, f.path, "None", FALSE))
                /\ UNCHANGED exc
           ELSE IF strategy = "scrape_video"
           THEN /\ stack' = Push([f EXCEPT !.pc = "await"],
                                 Frame("scrape_video", f.node, f.path, "None", FALSE))
                /\ UNCHANGED exc
           ELSE IF ~LeafRaises(f.node)
           THEN /\ stack' = SetTop([f EXCEPT !.pc = "chunk",
                                             !.acc = LeafChunks(f.path, f.node)])
                /\ UNCHANGED exc
           ELSE IF strategy = "fallback_plaintext"
           THEN /\ stack' = SetTop([f EXCEPT !.pc = "chunk", !.acc = <<>>])
                /\ UNCHANGED exc
           ELSE /\ exc' = IF f.node.outcome \in Raising THEN f.node.outcome ELSE "ValueError"
                /\ UNCHANGED stack
    /\ ret' = NoRet
    /\ UNCHANGED <<root, temp_fs, temp_log, chunk_log, tmp_bytes, tier_log>>
    /\ UNCHANGED <<pdfVars, extractVars, callVars>>

\* scrape_zip or scrape_video returned to scrape_file
FileResume ==
    /\ Running /\ exc = "none"
    /\ Top.fn = "scrape_file" /\ Top.pc = "await" /\ ret.set
    /\ stack' = SetTop([Top EXCEPT !.pc = "chunk", !.acc = ret.val])
    /\ ret' = NoRet
    /\ UNCHANGED <<root, exc, temp_fs, temp_log, chunk_log, tmp_bytes, tier_log>>
    /\ UNCHANGED <<pdfVars, extractVars, callVars>>

\* if chunking_method: scraped_chunks = chunking_method(scraped_chunks)
\* return scraped_chunks
FileChunkAndReturn ==
    /\ Running /\ exc = "none"
    /\ Top.fn = "scrape_file" /\ Top.pc = "chunk"
    /\ LET f == Top
       IN  IF f.cm # "None"
           THEN /\ ret' = Ret(ApplyChunking(f.cm, f.acc))
                /\ chunk_log' = Append(chunk_log,
                       [cm |-> f.cm, input |-> f.acc, depth |-> Len(stack), by |-> f.fn])
           ELSE /\ ret' = Ret(f.acc)
                /\ UNCHANGED chunk_log
    /\ stack' = Pop
    /\ UNCHANGED <<root, exc, temp_fs, temp_log, tmp_bytes, tier_log>>
    /\ UNCHANGED <<pdfVars, extractVars, callVars>>

\* ----------------------------------------------------- scrape_directory
\* for entry in os.scandir(dir_path): the listing is opened
DirOpen ==
    /\ Running /\ exc = "none"
    /\ Top.fn = "scrape_directory" /\ Top.pc = "start"
    /\ IF Top.node.outcome = "PermissionError"
       THEN exc' = "PermissionError" /\ UNCHANGED stack
       ELSE stack' = SetTop([Top EXCEPT !.pc = "scan"]) /\ UNCHANGED exc
    /\ ret' = NoRet
    /\ UNCHANGED <<root, temp_fs, temp_log, chunk_log, tmp_bytes, tier_log>>
    /\ UNCHANGED <<pdfVars, extractVars, callVars>>

DirAtEntry ==
    /\ Running /\ exc = "none"
    /\ Top.fn = "scrape_directory" /\ Top.pc = "scan"
    /\ Top.idx <= Len(Top.node.entries)

DirEntry == Top.node.entries[Top.idx]

\* the three "continue" statements and an entry that is neither file nor
\* directory
SkipsEntry(e, pat) ==
    \/ e.kind \in {"dir", "file"} /\ e.ignored
    \/ e.kind = "file" /\ pat /\ ~e.matches
    \/ e.kind = "other"

DirSkip ==
    /\ DirAtEntry
    /\ SkipsEntry(DirEntry, Top.pat)
    /\ stack' = SetTop([Top EXCEPT !.idx = @ + 1])
    /\ UNCHANGED <<root, exc, ret, temp_fs, temp_log, chunk_log, tmp_bytes, tier_log>>
    /\ UNCHANGED <<pdfVars, extractVars, callVars>>

\* extraction += scrape_file(filepath=path, ...): chunking_method is not
\* passed, so the callee uses its default chunk_by_page
DirCallFile ==
    /\ DirAtEntry
    /\ ~SkipsEntry(DirEntry, Top.pat)
    /\ DirEntry.kind = "file"
    /\ stack' = Push([Top EXCEPT !.pc = "await"],
                     Frame("scrape_file", DirEntry, Append(Top.path, Top.idx),
                           "chunk_by_page", FALSE))
    /\ UNCHANGED <<root, exc, ret, temp_fs, temp_log, chunk_log, tmp_bytes, tier_log>>
    /\ UNCHANGED <<pdfVars, extractVars, callVars>>

\* extraction += scrape_directory(dir_path=path, inclusion_pattern=...)
DirRecurse ==
    /\ DirAtEntry
    /\ ~SkipsEntry(DirEntry, Top.pat)
    /\ DirEntry.kind = "dir"
    /\ stack' = Push([Top EXCEPT !.pc = "await"],
                     Frame("scrape_directory", DirEntry, Append(Top.path, Top.idx),
                           "None", Top.pat))
    /\ UNCHANGED <<root, exc, ret, temp_fs, temp_log, chunk_log, tmp_bytes, tier_log>>
    /\ UNCHANGED <<pdfVars, extractVars, callVars>>

\* the callee returned: extraction += its chunks, next entry
DirResume ==
    /\ Running /\ exc = "none"
    /\ Top.fn = "scrape_directory" /\ Top.pc = "await" /\ ret.set
    /\ stack' = SetTop([Top EXCEPT !.pc = "scan", !.idx = @ + 1, !.acc = @ \o ret.val])
    /\ ret' = NoRet
    /\ UNCHANGED <<root, exc, temp_fs, temp_log, chunk_log, tmp_bytes, tier_log>>
    /\ UNCHANGED <<pdfVars, extractVars, callVars>>

\* the listing is exhausted: return extraction
DirReturn ==
    /\ Running /\ exc = "none"
    /\ Top.fn = "scrape_directory" /\ Top.pc = "scan"
    /\ Top.idx > Len(Top.node.entries)
    /\ ret' = Ret(Top.acc)
    /\ stack' = Pop
    /\ UNCHANGED <<root, exc, temp_fs, temp_log, chunk_log, tmp_bytes, tier_log>>
    /\ UNCHANGED <<pdfVars, extractVars, callVars>>

\* ------------------------------------------------------------ scrape_zip
NewTemp == Len(temp_log) + 1

\* with tempfile.TemporaryDirectory() as temp_dir: extractall, then
\* scrape_directory(temp_dir, inclusion_pattern)
ZipOpen ==
    /\ Running /\ exc = "none"
    /\ Top.fn = "scrape_zip" /\ Top.pc = "start"
    /\ temp_fs' = temp_fs \cup {NewTemp}
    /\ temp_log' = Append(temp_log, [id |-> NewTemp, kind |-> "dir", by |-> "scrape_zip"])
    /\ LET f == [Top EXCEPT !.pc = "await", !.tmp = NewTemp]
       IN  IF f.node.outcome \in Raising
           THEN /\ exc' = f.node.outcome
                /\ stack' = SetTop(f)
           ELSE /\ stack' = Push(f, Frame("scrape_directory", Dir(f.node.entries),
                                          f.path, "None", f.pat))
                /\ UNCHANGED exc
    /\ ret' = NoRet
    /\ UNCHANGED <<root, chunk_log, tmp_bytes, tier_log>>
    /\ UNCHANGED <<pdfVars, extractVars, callVars>>

\* the callee's chunks are returned as they are (scrape_zip, scrape_github,
\* scrape_youtube, and scrape_url for a video, repository or file url);
\* a with TemporaryDirectory block that is left removes its directory
TempDirReturn ==
    /\ Running /\ exc = "none"
    /\ Top.fn \in {"scrape_zip", "scrape_github", "scrape_youtube", "scrape_url"}
    /\ Top.pc = "await" /\ ret.set
    /\ temp_fs' = temp_fs \ {Top.tmp}
    /\ ret' = Ret(ret.val)
    /\ stack' = Pop
    /\ UNCHANGED <<root, exc, temp_log, chunk_log, tmp_bytes, tier_log>>
    /\ UNCHANGED <<pdfVars, extractVars, callVars>>

\* ---------------------------------------------------------- scrape_video
\* the audio of one MAX_WHISPER_DURATION segment of a video: no audio track,
\* speech, silence (whisper returns no segments), or a failure of
\* write_audiofile or of transcribe
Video(outcome, segments) == Node("file", FALSE, TRUE, MimeTypes.mp4, outcome, segments)

Videos ==
    {Video("ok", s) : s \in SeqUpTo({"none", "speech", "silent", "write_fails", "transcribe_fails"},
                                 MaxSegments)}
    \cup {Video("Exception", <<>>)}

\* whisper.load_model and VideoFileClip(file_path), before the try block
VideoOpen ==
    /\ Running /\ exc = "none"
    /\ Top.fn = "scrape_video" /\ Top.pc = "start"
    /\ IF Top.node.outcome \in Raising
       THEN exc' = Top.node.outcome /\ UNCHANGED stack
       ELSE stack' = SetTop([Top EXCEPT !.pc = "loop"]) /\ UNCHANGED exc
    /\ ret' = NoRet
    /\ UNCHANGED <<root, temp_fs, temp_log, chunk_log, tmp_bytes, tier_log>>
    /\ UNCHANGED <<pdfVars, extractVars, callVars>>

\* the frame taken at the start of segment i
FrameImage(i) == i

\* one iteration of the loop over the segments: the .wav file is created
\* with delete=False and removed only after a successful transcription
VideoSegment ==
    /\ Running /\ exc = "none"
    /\ Top.fn = "scrape_video" /\ Top.pc = "loop"
    /\ Top.idx <= Len(Top.node.entries)
    /\ LET f == Top
           seg == f.node.entries[f.idx]
           image == IF root.include_output_images THEN FrameImage(f.idx) ELSE NoImage
           transcription == IF seg = "speech" THEN <<"T">> ELSE <<>>
           chunk == Chunk(f.path, transcription,
                          IF image # NoImage THEN <<image>> ELSE <<>>)
       IN  /\ temp_log' = Append(temp_log,
                                 [id |-> NewTemp, kind |-> "wav", by |-> "scrape_video"])
           /\ IF seg \in {"write_fails", "transcribe_fails"}
              THEN /\ exc' = "Exception"
                   /\ temp_fs' = temp_fs \cup {NewTemp}
                   /\ UNCHANGED stack
              ELSE /\ temp_fs' = IF seg = "none" THEN temp_fs \cup {NewTemp} ELSE temp_fs
                   /\ stack' = SetTop([f EXCEPT !.idx = @ + 1,
                                                !.acc = IF transcription # <<>> \/ image # NoImage
                                                        THEN Append(@, chunk) ELSE @])
                   /\ UNCHANGED exc
    /\ ret' = NoRet
    /\ UNCHANGED <<root, chunk_log, tmp_bytes, tier_log>>
    /\ UNCHANGED <<pdfVars, extractVars, callVars>>

\* finally: video.close(); return chunks
VideoReturn ==
    /\ Running /\ exc = "none"
    /\ Top.fn = "scrape_video" /\ Top.pc = "loop"
    /\ Top.idx > Len(Top.node.entries)
    /\ ret' = Ret(Top.acc)
    /\ stack' = Pop
    /\ UNCHANGED <<root, exc, temp_fs, temp_log, chunk_log, tmp_bytes, tier_log>>
    /\ UNCHANGED <<pdfVars, extractVars, callVars>>

\* -------------------------------------------------------- scrape_youtube
\* with tempfile.TemporaryDirectory(): pick the stream, download it, call
\* scrape_video on the downloaded file
YoutubeOpen ==
    /\ Running /\ exc = "none"
    /\ Top.fn = "scrape_youtube" /\ Top.pc = "start"
    /\ temp_fs' = temp_fs \cup {NewTemp}
    /\ temp_log' = Append(temp_log, [id |-> NewTemp, kind |-> "dir", by |-> "scrape_youtube"])
    /\ LET f == [Top EXCEPT !.pc = "await", !.tmp = NewTemp]
       IN  IF root.url.stream = "none"
           THEN exc' = "ValueError" /\ stack' = SetTop(f)
           ELSE IF root.url.stream = "download_fails"
           THEN exc' = "Exception" /\ stack' = SetTop(f)
           ELSE /\ stack' = Push(f, Frame("scrape_video", f.node, f.path, "None", FALSE))
                /\ UNCHANGED exc
    /\ ret' = NoRet
    /\ UNCHANGED <<root, chunk_log, tmp_bytes, tier_log>>
    /\ UNCHANGED <<pdfVars, extractVars, callVars>>

\* --------------------------------------------------------- scrape_github
\* GITHUB_TOKEN is checked first; then, inside the temporary directory,
\* git clone and scrape_directory
GithubOpen ==
    /\ Running /\ exc = "none"
    /\ Top.fn = "scrape_github" /\ Top.pc = "start"
    /\ IF ~root.url.token
       THEN /\ exc' = "ValueError"
            /\ UNCHANGED <<stack, temp_fs, temp_log>>
       ELSE /\ temp_fs' = temp_fs \cup {NewTemp}
            /\ temp_log' = Append(temp_log,
                                  [id |-> NewTemp, kind |-> "dir", by |-> "scrape_github"])
            /\ LET f == [Top EXCEPT !.pc = "await", !.tmp = NewTemp]
               IN  IF ~root.url.clone_ok
                   THEN exc' = "RuntimeError" /\ stack' = SetTop(f)
                   ELSE /\ stack' = Push(f, Frame("scrape_directory", Dir(f.node.entries),
                                                  f.path, "None", f.pat))
                        /\ UNCHANGED exc
    /\ ret' = NoRet
    /\ UNCHANGED <<root, chunk_log, tmp_bytes, tier_log>>
    /\ UNCHANGED <<pdfVars, extractVars, callVars>>

\* ------------------------------------------------------------ scrape_url
UrlAt(kind) ==
    /\ Running /\ exc = "none"
    /\ Top.fn = "scrape_url" /\ Top.pc = "start"
    /\ root.url.kind = kind

TweetImage == 1

\* scrape_tweet after a 200 response
ScrapeTweet(path, u, with_images) ==
    <<Chunk(path, u.tweet_text,
            IF with_images /\ u.tweet_media THEN <<TweetImage>> ELSE <<>>)>>

\* scrape_tweet: a status code other than 200 raises, otherwise one chunk
\* with the tweet's text and images; scrape_url returns it as it is
UrlTweet ==
    /\ UrlAt("twitter")
    /\ IF ~root.url.status_ok
       THEN /\ exc' = "ValueError"
            /\ ret' = NoRet
            /\ UNCHANGED stack
       ELSE /\ ret' = Ret(ScrapeTweet(Top.path, root.url, root.include_output_images))
            /\ stack' = Pop
            /\ UNCHANGED exc
    /\ UNCHANGED <<root, temp_fs, temp_log, chunk_log, tmp_bytes, tier_log>>
    /\ UNCHANGED <<pdfVars, extractVars, callVars>>

\* extraction = scrape_youtube(...); return extraction
UrlCallYoutube ==
    /\ UrlAt("youtube")
    /\ stack' = Push([Top EXCEPT !.pc = "await"],
                     Frame("scrape_youtube", Top.node, Top.path, "None", FALSE))
    /\ UNCHANGED <<root, exc, ret, temp_fs, temp_log, chunk_log, tmp_bytes, tier_log>>
    /\ UNCHANGED <<pdfVars, extractVars, callVars>>

\* extraction = scrape_github(...); return extraction
UrlCallGithub ==
    /\ UrlAt("github")
    /\ stack' = Push([Top EXCEPT !.pc = "await"],
                     Frame("scrape_github", Top.node, Top.path, "None", FALSE))
    /\ UNCHANGED <<root, exc, ret, temp_fs, temp_log, chunk_log, tmp_bytes, tier_log>>
    /\ UNCHANGED <<pdfVars, extractVars, callVars>>

FILESIZE_LIMIT_MB == 50

\* the size test made before the file is written, on
\* int(response.headers.get("Content-Length", 0))
ExceedsLimit(u) ==
    LET response_length == IF u.has_length THEN u.body ELSE 0
    IN  FILESIZE_LIMIT_MB # 0 /\ response_length > FILESIZE_LIMIT_MB * 1024 * 1024

\* the url has a file extension: inside a temporary directory, fetch it,
\* test the announced size, write the body and call scrape_file
UrlDownload ==
    /\ UrlAt("file")
    /\ temp_fs' = temp_fs \cup {NewTemp}
    /\ temp_log' = Append(temp_log, [id |-> NewTemp, kind |-> "dir", by |-> "scrape_url"])
    /\ LET f == [Top EXCEPT !.pc = "await", !.tmp = NewTemp]
       IN  IF ~root.url.fetch_ok
           THEN /\ exc' = "Exception"
                /\ stack' = SetTop(f)
                /\ UNCHANGED tmp_bytes
           ELSE IF ExceedsLimit(root.url)
           THEN /\ exc' = "ValueError"
                /\ stack' = SetTop(f)
                /\ UNCHANGED tmp_bytes
           ELSE /\ tmp_bytes' = root.url.body
                /\ stack' = Push(f, Frame("scrape_file", f.node, f.path, f.cm, FALSE))
                /\ UNCHANGED exc
    /\ ret' = NoRet
    /\ UNCHANGED <<root, chunk_log, tier_log>>
    /\ UNCHANGED <<pdfVars, extractVars, callVars>>

StackedImage == 1

\* parse_webpage_with_vlm (tier 1): the browser steps may raise; no
\* screenshot and an empty reply raise; otherwise one chunk with the reply
ParseWebpageWithVlm(path, w, with_images) ==
    IF ~w.t1_browser_ok
    THEN [raised |-> TRUE, exc |-> "Exception", chunk |-> Chunk(path, <<>>, <<>>)]
    ELSE IF w.t1_screenshots = 0
    THEN [raised |-> TRUE, exc |-> "ValueError", chunk |-> Chunk(path, <<>>, <<>>)]
    ELSE IF ~w.t1_reply.ok \/ w.t1_reply.content = <<>>
    THEN [raised |-> TRUE, exc |-> "Exception", chunk |-> Chunk(path, <<>>, <<>>)]
    ELSE [raised |-> FALSE, exc |-> "none",
          chunk |-> Chunk(path, w.t1_reply.content,
                          IF with_images THEN <<StackedImage>> ELSE <<>>)]

PageImages(n) == [i \in 1 .. n |-> i]

\* extract_page_content (tiers 2 and 3): the browser block appends its text
\* and then its images; any failure inside it runs the plain fetch, which
\* appends its own text, or "" when it fails too
ExtractPageContent(path, w, with_images) ==
    LET \* the images are enumerated under include_output_images only;
        \* w.t2_images of them are loaded, before the failure if there is one
        fails == IF w.t2_fails = "images" /\ ~with_images THEN "none" ELSE w.t2_fails
        t2_texts == IF fails \in {"goto", "scroll", "content"} THEN <<>>
                    ELSE <<w.t2_text>>
        t2_images == IF fails \in {"none", "images"} /\ with_images
                     THEN PageImages(w.t2_images)
                     ELSE <<>>
        texts == IF fails = "none" THEN t2_texts
                 ELSE IF w.t3_ok THEN Append(t2_texts, w.t3_text)
                 ELSE Append(t2_texts, <<>>)
    IN  IF ~w.launch_ok
        THEN [raised |-> TRUE, exc |-> "Exception", chunk |-> Chunk(path, <<>>, <<>>),
              tiers |-> <<2>>]
        ELSE [raised |-> FALSE, exc |-> "none",
              chunk |-> Chunk(path, Strip(JoinLines(texts)), t2_images),
              tiers |-> IF fails = "none" THEN <<2>> ELSE <<2, 3>>]

\* if not any(chunk.text ...) and not any(chunk.images ...)
AllEmpty(chunks) ==
    /\ ~\E i \in 1 .. Len(chunks) : chunks[i].text # <<>>
    /\ ~\E i \in 1 .. Len(chunks) : chunks[i].images # <<>>

\* the url is a web page: tier 1 when a client is given and input images
\* are wanted, tiers 2 and 3 otherwise; then chunking and the emptiness test
UrlWeb ==
    /\ UrlAt("web")
    /\ LET f == Top
           vlm == root.openai_client /\ root.include_input_images
           r == IF vlm
                THEN ParseWebpageWithVlm(f.path, root.url, root.include_output_images)
                ELSE ExtractPageContent(f.path, root.url, root.include_output_images)
           chunks == ApplyChunking(f.cm, <<r.chunk>>)
       IN  /\ tier_log' = IF vlm THEN <<1>> ELSE r.tiers
           /\ IF r.raised
              THEN /\ exc' = r.exc
                   /\ ret' = NoRet
                   /\ UNCHANGED <<stack, chunk_log>>
              ELSE /\ chunk_log' = Append(chunk_log,
                         [cm |-> f.cm, input |-> <<r.chunk>>, depth |-> Len(stack), by |-> f.fn])
                   /\ IF AllEmpty(chunks)
                      THEN /\ exc' = "ValueError"
                           /\ ret' = NoRet
                           /\ UNCHANGED stack
                      ELSE /\ ret' = Ret(chunks)
                           /\ stack' = Pop
                           /\ UNCHANGED exc
    /\ UNCHANGED <<root, temp_fs, temp_log, tmp_bytes>>
    /\ UNCHANGED <<pdfVars, extractVars, callVars>>

\* an exception leaves the innermost frame and the with TemporaryDirectory
\* block it holds, or is caught by the except PermissionError of
\* scrape_directory
Unwind ==
    /\ Running /\ exc # "none"
    /\ IF Top.fn = "scrape_directory" /\ exc = "PermissionError"
       THEN /\ exc' = "none"
            /\ ret' = Ret(Top.acc)
       ELSE /\ ret' = NoRet
            /\ UNCHANGED exc
    /\ temp_fs' = IF /\ Top.fn \in {"scrape_zip", "scrape_github", "scrape_youtube",
                                   "scrape_url"}
                    /\ Top.tmp # 0
                 THEN temp_fs \ {Top.tmp} ELSE temp_fs
    /\ stack' = Pop
    /\ UNCHANGED <<root, temp_log, chunk_log, tmp_bytes, tier_log>>
    /\ UNCHANGED <<pdfVars, extractVars, callVars>>

\* ------------------------------------------------------------ user calls
UrlInput ==
    [kind |-> "none", status_ok |-> TRUE, tweet_text |-> <<"T">>, tweet_media |-> FALSE,
     stream |-> "ok", token |-> TRUE, clone_ok |-> TRUE,
     fetch_ok |-> TRUE, body |-> 0, has_length |-> TRUE,
     launch_ok |-> TRUE, t1_browser_ok |-> TRUE, t1_screenshots |-> 1,
     t1_reply |-> [ok |-> TRUE, content |-> <<"A">>],
     t2_fails |-> "none", t2_text |-> <<"W">>, t2_images |-> 0,
     t3_ok |-> TRUE, t3_text |-> <<"P">>]

RootCall(fn, node, cm, pat) ==
    [fn |-> fn, node |-> node, cm |-> cm, pat |-> pat,
     openai_client |-> FALSE, include_input_images |-> TRUE,
     include_output_images |-> TRUE, url |-> UrlInput]

\* the files scrape_file and scrape_url's download branch are called on
SingleFiles ==
    {e \in Entries : e.kind = "file"}
    \cup { File(MimeTypes.plain, "empty"), File(MimeTypes.msExcel, "chunk"),
           File(MimeTypes.msExcelMacro, "chunk"), File(MimeTypes.png, "chunk") }

\* the urls of one kind that scrape_url is called on; the sizes of a
\* response body lie around the limit
Urls(kind) ==
    IF kind = "twitter"
    THEN {[UrlInput EXCEPT !.kind = "twitter", !.status_ok = s, !.tweet_text = t,
                           !.tweet_media = m] :
            s \in BOOLEAN, t \in {<<>>, <<"T">>}, m \in BOOLEAN}
    ELSE IF kind = "youtube"
    THEN {[UrlInput EXCEPT !.kind = "youtube", !.stream = st] :
            st \in {"ok", "none", "download_fails"}}
    ELSE IF kind = "github"
    THEN {[UrlInput EXCEPT !.kind = "github", !.token = t, !.clone_ok = c] :
            t \in BOOLEAN, c \in BOOLEAN}
    ELSE IF kind = "file"
    THEN {[UrlInput EXCEPT !.kind = "file", !.fetch_ok = f, !.body = b, !.has_length = h] :
            f \in BOOLEAN, b \in {0, 1024, FILESIZE_LIMIT_MB * 1024 * 1024, FILESIZE_LIMIT_MB * 1024 * 1024 + 1}, h \in BOOLEAN}
    ELSE IF kind = "vlm"
    THEN {[UrlInput EXCEPT !.kind = "web", !.t1_browser_ok = b, !.t1_screenshots = n,
                           !.t1_reply = r] :
            b \in BOOLEAN, n \in 0 .. MaxScreenshots, r \in ModelOutcomes}
    ELSE {[UrlInput EXCEPT !.kind = "web", !.launch_ok = l, !.t2_fails = f2, !.t2_text = x2,
                           !.t2_images = n, !.t3_ok = o3, !.t3_text = x3] :
            l \in BOOLEAN, f2 \in {"none", "goto", "scroll", "content", "images"},
            x2 \in {<<>>, <<"W">>}, n \in 0 .. MaxImages,
            o3 \in BOOLEAN, x3 \in {<<>>, <<"P">>}}

\* the calls a user makes: directories and archives, single files, videos,
\* repositories and urls
RootCalls(n) ==
    {RootCall("scrape_directory", Dir(l), "None", pat) : l \in SeqUpTo(Entries, n), pat \in BOOLEAN}
    \cup {RootCall("scrape_zip", ZipFile(l), "None", pat) : l \in SeqUpTo(Entries, n), pat \in BOOLEAN}
    \cup {RootCall("scrape_file", f, cm, FALSE) :
            f \in SingleFiles \cup Videos, cm \in ChunkingMethods \cup {"None"}}
    \cup {[RootCall("scrape_video", v, "None", FALSE) EXCEPT !.include_output_images = o] :
            v \in Videos, o \in BOOLEAN}
    \cup {[RootCall("scrape_youtube", v, "None", FALSE) EXCEPT
                !.include_output_images = o, !.url = u] :
            v \in Videos, o \in BOOLEAN, u \in Urls("youtube")}
    \cup {[RootCall("scrape_github", Dir(l), "None", pat) EXCEPT !.url = u] :
            l \in SubListings, pat \in BOOLEAN, u \in Urls("github")}
    \cup {[RootCall("scrape_url", Dir(<<>>), cm, FALSE) EXCEPT
            !.url = u, !.include_output_images = o] :
        cm \in ChunkingMethods, u \in Urls("twitter"), o \in BOOLEAN}
    \cup {[RootCall("scrape_url", v, cm, FALSE) EXCEPT
            !.url = u, !.include_output_images = o] :
        cm \in ChunkingMethods, v \in Videos, u \in Urls("youtube"), o \in BOOLEAN}
    \cup {[RootCall("scrape_url", Dir(l), cm, FALSE) EXCEPT !.url = u] :
        cm \in ChunkingMethods, l \in SubListings, u \in Urls("github")}
    \cup {[RootCall("scrape_url", f, cm, FALSE) EXCEPT !.url = u] :
        cm \in ChunkingMethods, f \in SingleFiles, u \in Urls("file")}
    \cup {[RootCall("scrape_url", Dir(<<>>), cm, FALSE) EXCEPT
            !.url = u, !.openai_client = TRUE, !.include_input_images = TRUE,
            !.include_output_images = o] :
        cm \in ChunkingMethods, u \in Urls("vlm"), o \in BOOLEAN}
    \cup {[RootCall("scrape_url", Dir(<<>>), cm, FALSE) EXCEPT
            !.url = u, !.openai_client = fl[1], !.include_input_images = fl[2],
            !.include_output_images = o] :
        cm \in ChunkingMethods, u \in Urls("browser"), o \in BOOLEAN,
        fl \in {x \in BOOLEAN \X BOOLEAN : ~(x[1] /\ x[2])}}


\* the variables of a specification that is not running
ScrapeIdle ==
    /\ root = RootCall("none", Dir(<<>>), "None", FALSE)
    /\ stack = <<>>
    /\ exc = "none"
    /\ ret = NoRet
    /\ temp_fs = {}
    /\ temp_log = <<>>
    /\ chunk_log = <<>>
    /\ tmp_bytes = 0
    /\ tier_log = <<>>

PdfIdle ==
    /\ num_pages = 0
    /\ include_input_images = FALSE
    /\ include_output_images = FALSE
    /\ cpu_count = 1
    /\ model_out = <<>>
    /\ submitted = 0
    /\ task = <<>>
    /\ task_result = <<>>
    /\ task_exc = <<>>
    /\ collected = {}
    /\ page_results = <<>>
    /\ pdf_pc = "idle"
    /\ pdf_exc = NoExc
    /\ pdf_chunks = <<>>

\* ------------------------------------------------- extraction strategies
\* the texts a file, a cell, a paragraph or a page may hold
SampleTexts == {<<>>, <<" ">>, <<"a">>, <<"a", "\n", "\n", "\n", "b">>, <<"\n", "\n", "\n">>}

RECURSIVE NewlineRun(_)
NewlineRun(s) ==
    IF s # <<>> /\ Head(s) = "\n" THEN 1 + NewlineRun(Tail(s)) ELSE 0

\* re.sub(r"\n{3,}", "\n\n", s)
RECURSIVE CollapseNewlines(_)
CollapseNewlines(s) ==
    IF s = <<>> THEN <<>>
    ELSE LET n == NewlineRun(s)
         IN  IF n = 0 THEN <<Head(s)>> \o CollapseNewlines(Tail(s))
             ELSE (IF n >= 3 THEN <<"\n", "\n">> ELSE SubSeq(s, 1, n))
                  \o CollapseNewlines(DropFirst(s, n))

\* get_images_from_markdown: one image per reference with a .jpg, .jpeg or
\* .png extension whose download succeeds; refs[i] tells whether reference
\* i is such a reference
RECURSIVE ImagesFromMarkdown(_, _)
ImagesFromMarkdown(refs, i) ==
    IF i > Len(refs) THEN <<>>
    ELSE (IF refs[i] THEN <<i>> ELSE <<>>) \o ImagesFromMarkdown(refs, i + 1)

SamplePath == <<1>>

\* scrape_plaintext
ScrapePlaintext(text) == <<Chunk(SamplePath, text, <<>>)>>

\* scrape_html: d.markdown is markdownify's output for the file
ScrapeHtml(d, with_images) ==
    <<Chunk(SamplePath, d.markdown,
            IF with_images THEN ImagesFromMarkdown(d.refs, 1) ELSE <<>>)>>

\* scrape_pdf without a client: one chunk per page, appended unconditionally
RECURSIVE ScrapePdfOffline(_, _, _)
ScrapePdfOffline(md_pages, with_images, i) ==
    IF i > Len(md_pages) THEN <<>>
    ELSE <<Chunk(SamplePath, Strip(CollapseNewlines(md_pages[i])),
                 IF with_images THEN <<PageImage(i - 1)>> ELSE <<>>)>>
         \o ScrapePdfOffline(md_pages, with_images, i + 1)

\* the outputs of a code cell: images when wanted and present, else the
\* text/plain data
RECURSIVE CellOutputImages(_, _, _)
CellOutputImages(outputs, with_images, i) ==
    IF i > Len(outputs) THEN <<>>
    ELSE (IF with_images /\ outputs[i].png THEN <<i>> ELSE <<>>)
         \o CellOutputImages(outputs, with_images, i + 1)

RECURSIVE CellOutputTexts(_, _, _)
CellOutputTexts(outputs, with_images, i) ==
    IF i > Len(outputs) THEN <<>>
    ELSE (IF ~(with_images /\ outputs[i].png) /\ outputs[i].plain THEN <<<<"o">>>> ELSE <<>>)
         \o CellOutputTexts(outputs, with_images, i + 1)

\* the body of scrape_ipynb's loop: the chunks one cell contributes
CellChunks(cell, with_images) ==
    LET texts == IF cell.cell_type = "markdown" \/ cell.cell_type = "raw"
                 THEN <<cell.source>>
                 ELSE IF cell.cell_type = "code"
                 THEN <<cell.source>> \o CellOutputTexts(cell.outputs, with_images, 1)
                 ELSE <<>>
        images == IF cell.cell_type = "markdown" /\ with_images
                  THEN ImagesFromMarkdown(cell.refs, 1)
                  ELSE IF cell.cell_type = "code"
                  THEN CellOutputImages(cell.outputs, with_images, 1)
                  ELSE <<>>
    IN  IF texts # <<>> \/ images # <<>>
        THEN <<Chunk(SamplePath, Strip(JoinLines(texts)), images)>>
        ELSE <<>>

RECURSIVE ScrapeIpynb(_, _)
ScrapeIpynb(cells, with_images) ==
    IF cells = <<>> THEN <<>>
    ELSE CellChunks(Head(cells), with_images) \o ScrapeIpynb(Tail(cells), with_images)

\* the texts of a slide: every paragraph of every shape with a text frame,
\* the first one prefixed with "# "
RECURSIVE SlideParagraphs(_)
SlideParagraphs(shapes) ==
    IF shapes = <<>> THEN <<>>
    ELSE (IF Head(shapes).has_text_frame THEN Head(shapes).paragraphs ELSE <<>>)
         \o SlideParagraphs(Tail(shapes))

SlideTexts(shapes) ==
    LET ps == SlideParagraphs(shapes)
    IN  [i \in 1 .. Len(ps) |-> IF i = 1 THEN <<"#", " ">> \o ps[i] ELSE ps[i]]

RECURSIVE SlideImages(_, _, _)
SlideImages(shapes, with_images, i) ==
    IF i > Len(shapes) THEN <<>>
    ELSE (IF with_images /\ shapes[i].is_picture THEN <<i>> ELSE <<>>)
         \o SlideImages(shapes, with_images, i + 1)

\* scrape_pptx
RECURSIVE ScrapePptx(_, _)
ScrapePptx(slides, with_images) ==
    IF slides = <<>> THEN <<>>
    ELSE LET slide_texts == SlideTexts(Head(slides))
             slide_images == SlideImages(Head(slides), with_images, 1)
         IN  (IF slide_texts # <<>> \/ slide_images # <<>>
              THEN <<Chunk(SamplePath, Strip(JoinLines(slide_texts)),
                           IF with_images THEN slide_images ELSE <<>>)>>
              ELSE <<>>)
             \o ScrapePptx(Tail(slides), with_images)

\* scrape_docx: a paragraph gives its text and, when wanted, its pictures;
\* a table gives its csv text; a block is kept only if its stripped text
\* or its images are non-empty
RECURSIVE ScrapeDocx(_, _)
ScrapeDocx(blocks, with_images) ==
    IF blocks = <<>> THEN <<>>
    ELSE LET b == Head(blocks)
             block_text == Strip(b.text)
             block_images == IF b.kind = "paragraph" /\ with_images
                             THEN PageImages(b.pics) ELSE <<>>
         IN  (IF block_text # <<>> \/ block_images # <<>>
              THEN <<Chunk(SamplePath, block_text, block_images)>>
              ELSE <<>>)
             \o ScrapeDocx(Tail(blocks), with_images)

\* f"[{start} --> {end}]  {segment['text']}", the timestamps left out
RECURSIVE TranscriptLines(_)
TranscriptLines(segments) ==
    IF segments = <<>> THEN <<>>
    ELSE (IF Strip(Head(segments)) # <<>> THEN <<<<"[", "]", " ", " ">> \o Head(segments)>> ELSE <<>>)
         \o TranscriptLines(Tail(segments))

\* scrape_audio: always one chunk, with the joined transcript
ScrapeAudio(segments) == <<Chunk(SamplePath, JoinLines(TranscriptLines(segments)), <<>>)>>

\* scrape_spreadsheet: one chunk per row, holding the row as json
ScrapeSpreadsheet(rows) == [i \in 1 .. rows |-> Chunk(SamplePath, <<"{", "}">>, <<>>)]

\* scrape_image
ScrapeImage == <<[path |-> SamplePath, text |-> <<>>, images |-> <<1>>]>>

\* the calls of the strategies on inputs of at most len units
ExtractCalls(len) ==
    LET Refs == SeqUpTo(BOOLEAN, 1)
        Cells ==
            {c \in [cell_type : {"markdown", "code", "raw", "other"}, source : {<<>>, <<" ">>, <<"a">>},
                    outputs : SeqUpTo([png : BOOLEAN, plain : BOOLEAN], 1), refs : Refs] :
                /\ c.cell_type # "code" => c.outputs = <<>>
                /\ c.cell_type = "other" => c.source = <<>>
                /\ (c.cell_type # "markdown" \/ c.source = <<>>) => c.refs = <<>>}
        Shapes ==
            {[has_text_frame |-> TRUE, paragraphs |-> <<<<>>>>, is_picture |-> FALSE],
             [has_text_frame |-> TRUE, paragraphs |-> <<<<"t">>>>, is_picture |-> FALSE],
             [has_text_frame |-> FALSE, paragraphs |-> <<>>, is_picture |-> TRUE],
             [has_text_frame |-> FALSE, paragraphs |-> <<>>, is_picture |-> FALSE]}
        Blocks ==
            {b \in [kind : {"paragraph", "table"}, text : {<<>>, <<" ">>, <<"a">>}, pics : 0 .. 1] :
                b.kind = "table" => b.pics = 0}
    IN  {[strategy |-> "scrape_plaintext", input |-> t, with_images |-> TRUE] : t \in SampleTexts}
        \cup {[strategy |-> "scrape_html", input |-> d, with_images |-> o] :
                d \in [markdown : SampleTexts, refs : Refs], o \in BOOLEAN}
        \cup {[strategy |-> "scrape_pdf", input |-> ps, with_images |-> o] :
                ps \in SeqUpTo(SampleTexts, len), o \in BOOLEAN}
        \cup {[strategy |-> "scrape_ipynb", input |-> cs, with_images |-> o] :
                cs \in SeqUpTo(Cells, len), o \in BOOLEAN}
        \cup {[strategy |-> "scrape_pptx", input |-> sl, with_images |-> o] :
                sl \in SeqUpTo(SeqUpTo(Shapes, MaxShapes), len), o \in BOOLEAN}
        \cup {[strategy |-> "scrape_docx", input |-> bs, with_images |-> o] :
                bs \in SeqUpTo(Blocks, len), o \in BOOLEAN}
        \cup {[strategy |-> "scrape_audio", input |-> sg, with_images |-> TRUE] :
                sg \in SeqUpTo({<<" ">>, <<"s">>}, len)}
        \cup {[strategy |-> "scrape_spreadsheet", input |-> n, with_images |-> TRUE] :
                n \in 0 .. len}
        \cup {[strategy |-> "scrape_image", input |-> 1, with_images |-> TRUE]}
        \cup {[strategy |-> "scrape_tweet", input |-> u, with_images |-> o] :
                u \in {v \in Urls("twitter") : v.status_ok}, o \in BOOLEAN}


ExtractIdle ==
    /\ ex_call = [strategy |-> "none", input |-> <<>>, with_images |-> FALSE]
    /\ ex_pc = "idle"
    /\ ex_chunks = <<>>

ExtractAt(strategy) == ex_pc = "call" /\ ex_call.strategy = strategy

ExtractDone(chunks) ==
    /\ ex_chunks' = chunks
    /\ ex_pc' = "done"
    /\ UNCHANGED <<ex_call, pdfVars, scrapeVars, callVars>>

ExPlaintext == ExtractAt("scrape_plaintext") /\ ExtractDone(ScrapePlaintext(ex_call.input))
ExHtml == ExtractAt("scrape_html") /\ ExtractDone(ScrapeHtml(ex_call.input, ex_call.with_images))
ExPdfOffline ==
    ExtractAt("scrape_pdf") /\ ExtractDone(ScrapePdfOffline(ex_call.input, ex_call.with_images, 1))
ExIpynb == ExtractAt("scrape_ipynb") /\ ExtractDone(ScrapeIpynb(ex_call.input, ex_call.with_images))
ExPptx == ExtractAt("scrape_pptx") /\ ExtractDone(ScrapePptx(ex_call.input, ex_call.with_images))
ExDocx == ExtractAt("scrape_docx") /\ ExtractDone(ScrapeDocx(ex_call.input, ex_call.with_images))
ExAudio == ExtractAt("scrape_audio") /\ ExtractDone(ScrapeAudio(ex_call.input))
ExSpreadsheet ==
    ExtractAt("scrape_spreadsheet") /\ ExtractDone(ScrapeSpreadsheet(ex_call.input))
ExImage == ExtractAt("scrape_image") /\ ExtractDone(ScrapeImage)
ExTweet ==
    ExtractAt("scrape_tweet")
    /\ ExtractDone(ScrapeTweet(SamplePath, ex_call.input, ex_call.with_images))

ExtractNext ==
    \/ ExPlaintext
    \/ ExHtml
    \/ ExPdfOffline
    \/ ExIpynb
    \/ ExPptx
    \/ ExDocx
    \/ ExAudio
    \/ ExSpreadsheet
    \/ ExImage
    \/ ExTweet

\* ------------------------------------------------ calls of pure functions
CallIdle ==
    /\ fn_call = [fn |-> "none"]
    /\ fn_pc = "idle"
    /\ fn_out = <<>>

\* ------------------------------------------------ detect_source_mimetype
\* mimetypes.guess_type on the extensions used here; None is MimeTypes.none
GuessType(extension) ==
    IF extension = ".pdf" THEN MimeTypes.pdf
    ELSE IF extension = ".txt" THEN MimeTypes.plain
    ELSE IF extension = ".docx" THEN MimeTypes.docx
    ELSE IF extension = ".zip" THEN MimeTypes.zip
    ELSE MimeTypes.none

\* a source: its extension ("" when it has none), whether open(source, "rb")
\* succeeds, and the media type Magika finds in its bytes
Sources ==
    [extension : {"", ".ipynb", ".pdf", ".txt", ".docx", ".zip", ".xyz"},
     openable : BOOLEAN,
     sniffed : {MimeTypes.octet, MimeTypes.plain, MimeTypes.pdf, Mime("inode", "x-empty", "")}]

\* detect_source_mimetype: the notebook special case, the extension table,
\* then Magika on the bytes of the file, which open() must deliver
DetectSourceMimetype(source) ==
    IF source.extension # "" /\ source.extension = ".ipynb"
    THEN [raised |-> FALSE, mime |-> MimeTypes.ipynb]
    ELSE IF source.extension # "" /\ GuessType(source.extension) # MimeTypes.none
    THEN [raised |-> FALSE, mime |-> GuessType(source.extension)]
    ELSE IF ~source.openable
    THEN [raised |-> TRUE, mime |-> MimeTypes.none]
    ELSE [raised |-> FALSE, mime |-> source.sniffed]

\* scrape_file calls detect_source_mimetype
Detect ==
    /\ fn_pc = "call" /\ fn_call.fn = "detect_source_mimetype"
    /\ fn_out' = DetectSourceMimetype(fn_call.source)
    /\ fn_pc' = IF DetectSourceMimetype(fn_call.source).raised THEN "raised" ELSE "detected"
    /\ UNCHANGED <<fn_call, pdfVars, scrapeVars, extractVars>>

\* scrape_file chooses the strategy for the detected type
DispatchDetected ==
    /\ fn_pc = "detected"
    /\ fn_out' = [raised |-> FALSE, mime |-> fn_out.mime, strategy |-> Strategy(fn_out.mime)]
    /\ fn_pc' = "dispatched"
    /\ UNCHANGED <<fn_call, pdfVars, scrapeVars, extractVars>>

\* --------------------------------------------- Chunk.to_json, from_json
\* an image: its size, its mode, and whether its pixels are still those of
\* the image the chunk was built with (JPEG compression is lossy)
Images ==
    [width : {100, 1024}, height : {100, 1024}, mode : {"RGB", "RGBA"}, exact : {TRUE}]

\* make_image_url(image, host_images=False): the image is converted to RGB,
\* saved as JPEG and written behind the data-URI prefix
MakeImageUrl(image) ==
    <<"data:image/jpeg;base64,",
      [format |-> "JPEG", width |-> image.width, height |-> image.height, mode |-> "RGB"]>>

\* Chunk.to_json(host_images=False, text_only)
ToJsonUnstripped(chunk, text_only) ==
    [path |-> chunk.path,
     text |-> chunk.text,
     images |-> IF chunk.images # <<>> /\ ~text_only
                THEN [i \in 1 .. Len(chunk.images) |-> MakeImageUrl(chunk.images[i])]
                ELSE <<>>]

ToJson(chunk, text_only) ==
    [path |-> chunk.path,
     text |-> IF chunk.text # <<>> THEN Strip(chunk.text) ELSE <<>>,
     images |-> IF chunk.images # <<>> /\ ~text_only
                THEN [i \in 1 .. Len(chunk.images) |-> MakeImageUrl(chunk.images[i])]
                ELSE <<>>]

\* Chunk.from_json(data, host_images=False): the prefix is removed from each
\* image string and the JPEG behind it is opened
FromJson(data) ==
    Chunk(data.path,
          Strip(data.text),
          [i \in 1 .. Len(data.images) |->
              LET jpeg == DropFirst(data.images[i], 1)[1]
              IN  [width |-> jpeg.width, height |-> jpeg.height, mode |-> jpeg.mode,
                   exact |-> FALSE]])

\* to_json of the chunk of the call, and of the chunk from_json rebuilt
ToJsonStep ==
    /\ fn_call.fn = "to_json"
    /\ fn_pc \in {"call", "deserialized"}
    /\ fn_out' = IF fn_pc = "call"
                 THEN [d |-> ToJson(fn_call.chunk, fn_call.text_only)]
                 ELSE [d |-> fn_out.d, chunk |-> fn_out.chunk,
                       d2 |-> ToJson(fn_out.chunk, FALSE)]
    /\ fn_pc' = IF fn_pc = "call" THEN "serialized" ELSE "done"
    /\ UNCHANGED <<fn_call, pdfVars, scrapeVars, extractVars>>

FromJsonStep ==
    /\ fn_call.fn = "to_json"
    /\ fn_pc = "serialized"
    /\ fn_out' = [d |-> fn_out.d, chunk |-> FromJson(fn_out.d)]
    /\ fn_pc' = "deserialized"
    /\ UNCHANGED <<fn_call, pdfVars, scrapeVars, extractVars>>

\* ------------------------------------------------------ Chunk.to_message
\* Chunk.to_message(text_only, host_images, include_paths): the text is a
\* sequence of characters and of markdown image references, "![a](x)" being
\* one element; the k-th hosted image of the call is saved as Hk; the texts
\* used here hold no run of three newlines
ToMessage(chunk, text_only, host_images, include_paths) ==
    LET Hosted == <<"H1", "H2", "H3", "H4">>
        Inline == <<"![image](H1)", "![image](H2)", "![image](H3)", "![image](H4)">>
        image_urls == IF chunk.images # <<>> /\ ~text_only
                      THEN [i \in 1 .. Len(chunk.images) |->
                              IF host_images THEN Hosted[i]
                              ELSE MakeImageUrl(chunk.images[i])]
                      ELSE <<>>
        RECURSIVE Sub(_, _)
        Sub(text, img_index) ==
            IF text = <<>> THEN <<>>
            ELSE IF Head(text) = "![a](x)" /\ img_index < Len(image_urls)
            THEN <<Inline[img_index + 1]>> \o Sub(Tail(text), img_index + 1)
            ELSE <<Head(text)>> \o Sub(Tail(text), img_index)
        text == IF host_images THEN Sub(chunk.text, 0) ELSE chunk.text
        message_text == Strip(text \o <<"\n", "\n">>)
    IN  [role |-> "user",
         content |-> <<[type |-> "text",
                        text |-> IF include_paths /\ chunk.path # <<>>
                                 THEN <<"<Document>", "\n">> \o message_text
                                      \o <<"\n", "</Document>">>
                                 ELSE message_text]>>
                     \o [i \in 1 .. Len(image_urls) |->
                           [type |-> "image_url", image_url |-> image_urls[i]]]]

ToMessageCall ==
    /\ fn_pc = "call" /\ fn_call.fn = "to_message"
    /\ fn_out' = ToMessage(fn_call.chunk, fn_call.text_only, fn_call.host_images,
                           fn_call.include_paths)
    /\ fn_pc' = "done"
    /\ UNCHANGED <<fn_call, pdfVars, scrapeVars, extractVars>>

\* ----------------------------------------------------- calculate_tokens
RECURSIVE Sum(_)
Sum(s) == IF s = <<>> THEN 0 ELSE Head(s) + Sum(Tail(s))

\* calculate_image_tokens(image, detail); int(width * scale) is the floor of
\* width * 768 / short_side for the sizes used here
CalculateImageTokens(image, detail) ==
    LET width == IF image.width < 2048 THEN image.width ELSE 2048
        height == IF image.height < 2048 THEN image.height ELSE 2048
        short_side == IF width < height THEN width ELSE height
        scaled_width == (width * 768) \div short_side
        scaled_height == (height * 768) \div short_side
        tiles == (scaled_width \div 512) * (scaled_height \div 512)
    IN  IF detail = "low" THEN 85
        ELSE IF detail = "high" THEN 170 * tiles + 85
        ELSE IF image.width <= 512 /\ image.height <= 512 THEN 85
        ELSE 170 * tiles + 85

\* calculate_tokens(chunks, text_only): n_tokens is a float that grows by
\* len(text) / 4 and by whole image costs, and int() truncates it at the
\* end; the sum is kept in quarters of a token here
CalculateTokens(chunks, text_only) ==
    Sum([i \in 1 .. Len(chunks) |->
            Len(chunks[i].text)
            + IF chunks[i].images # <<>> /\ ~text_only
              THEN 4 * Sum([j \in 1 .. Len(chunks[i].images) |->
                              CalculateImageTokens(chunks[i].images[j], "auto")])
              ELSE 0]) \div 4

CalculateTokensCall ==
    /\ fn_pc = "call" /\ fn_call.fn = "calculate_tokens"
    /\ fn_out' = CalculateTokens(fn_call.chunks, fn_call.text_only)
    /\ fn_pc' = "done"
    /\ UNCHANGED <<fn_call, pdfVars, scrapeVars, extractVars>>

\* --------------------------------------- chunk_by_page, chunk_by_document
ChunkByPage ==
    /\ fn_pc = "call" /\ fn_call.fn = "chunk_by_page"
    /\ fn_out' = chunk_by_page(fn_call.chunks)
    /\ fn_pc' = "done"
    /\ UNCHANGED <<fn_call, pdfVars, scrapeVars, extractVars>>

ChunkByDocument ==
    /\ fn_pc = "call" /\ fn_call.fn = "chunk_by_document"
    /\ fn_out' = chunk_by_document(fn_call.chunks)
    /\ fn_pc' = "done"
    /\ UNCHANGED <<fn_call, pdfVars, scrapeVars, extractVars>>

\* ------------------------------------------------------- chunk_by_length
\* greedy accumulation: the next input chunk joins the open unit unless the
\* unit would then cost more than max_tokens under calculate_tokens; a unit
\* of several input chunks is merged as chunk_by_document merges
chunk_by_lengthCloseLate(chunks, max_tokens) ==
    LET RECURSIVE Greedy(_, _)
        Greedy(rest, unit) ==
            IF rest = <<>>
            THEN IF unit = <<>> THEN <<>> ELSE chunk_by_document(unit)
            ELSE IF /\ unit # <<>>
                    /\ CalculateTokens(chunk_by_document(unit), FALSE) > max_tokens
                 THEN chunk_by_document(unit) \o Greedy(Tail(rest), <<Head(rest)>>)
                 ELSE Greedy(Tail(rest), Append(unit, Head(rest)))
    IN  Greedy(chunks, <<>>)

chunk_by_length(chunks, max_tokens) ==
    LET RECURSIVE Greedy(_, _)
        Greedy(rest, unit) ==
            IF rest = <<>>
            THEN IF unit = <<>> THEN <<>> ELSE chunk_by_document(unit)
            ELSE IF /\ unit # <<>>
                    /\ CalculateTokens(chunk_by_document(Append(unit, Head(rest))), FALSE)
                           > max_tokens
                 THEN chunk_by_document(unit) \o Greedy(Tail(rest), <<Head(rest)>>)
                 ELSE Greedy(Tail(rest), Append(unit, Head(rest)))
    IN  Greedy(chunks, <<>>)

ChunkByLength ==
    /\ fn_pc = "call" /\ fn_call.fn = "chunk_by_length"
    /\ fn_out' = chunk_by_length(fn_call.chunks, fn_call.max_tokens)
    /\ fn_pc' = "done"
    /\ UNCHANGED <<fn_call, pdfVars, scrapeVars, extractVars>>

\* ----------------------------------------------------- chunk_by_keywords
\* str.lower on the letters used here
Lower(s) ==
    [i \in 1 .. Len(s) |->
        CASE s[i] = "F" -> "f" [] s[i] = "B" -> "b" [] s[i] = "I" -> "i" [] OTHER -> s[i]]

\* the pieces of text that begin at the positions starts, a set that holds
\* position 1 unless the text is empty
CutShort(text, starts) ==
    LET n == Cardinality(starts)
        Nth(i) == CHOOSE p \in starts : Cardinality({q \in starts : q < p}) = i - 1
    IN  [i \in 1 .. n |-> SubSeq(text, Nth(i), IF i = n THEN Len(text) ELSE Nth(i + 1) - 2)]

Cut(text, starts) ==
    LET n == Cardinality(starts)
        Nth(i) == CHOOSE p \in starts : Cardinality({q \in starts : q < p}) = i - 1
    IN  [i \in 1 .. n |-> SubSeq(text, Nth(i), IF i = n THEN Len(text) ELSE Nth(i + 1) - 1)]

\* the text of test_chunk_by_keywords
ExampleText ==
    <<"I", "n", "t", "r", "o", " ", "l", "i", "n", "e", "\n", "f", "o",
      "o", " ", "s", "t", "a", "r", "t", "s", " ", "h", "e", "r", "e",
      "\n", "m", "i", "d", "d", "l", "e", "\n", "b", "a", "r", " ", "n",
      "e", "x", "t", "\n", "e", "n", "d">>

\* the concatenated text is cut at every occurrence of a keyword, whatever
\* its case; the text before the first occurrence is a segment of its own;
\* the images stay with the first segment
chunk_by_keywordsCaseSensitive(chunks, keywords) ==
    LET text == JoinLines(TextsOf(chunks))
        hits == {p \in 1 .. Len(text) :
                    \E k \in keywords :
                        /\ k # <<>>
                        /\ p + Len(k) - 1 <= Len(text)
                        /\ SubSeq(text, p, p + Len(k) - 1) = k}
        segments == Cut(text, hits \cup (IF text = <<>> THEN {} ELSE {1}))
        images == ConcatImages(chunks)
    IN  IF segments = <<>>
        THEN IF images = <<>> THEN <<>> ELSE <<Chunk(chunks[1].path, <<>>, images)>>
        ELSE [i \in 1 .. Len(segments) |->
                Chunk(chunks[1].path, segments[i], IF i = 1 THEN images ELSE <<>>)]

chunk_by_keywords(chunks, keywords) ==
    LET text == JoinLines(TextsOf(chunks))
        hits == {p \in 1 .. Len(text) :
                    \E k \in keywords :
                        /\ k # <<>>
                        /\ p + Len(k) - 1 <= Len(text)
                        /\ SubSeq(Lower(text), p, p + Len(k) - 1) = Lower(k)}
        segments == Cut(text, hits \cup (IF text = <<>> THEN {} ELSE {1}))
        images == ConcatImages(chunks)
    IN  IF segments = <<>>
        THEN IF images = <<>> THEN <<>> ELSE <<Chunk(chunks[1].path, <<>>, images)>>
        ELSE [i \in 1 .. Len(segments) |->
                Chunk(chunks[1].path, segments[i], IF i = 1 THEN images ELSE <<>>)]

ChunkByKeywords ==
    /\ fn_pc = "call" /\ fn_call.fn = "chunk_by_keywords"
    /\ fn_out' = chunk_by_keywords(fn_call.chunks, fn_call.keywords)
    /\ fn_pc' = "done"
    /\ UNCHANGED <<fn_call, pdfVars, scrapeVars, extractVars>>

\* ------------------------------------------------------- chunk_by_section
\* the concatenated text is split in front of every line that begins with
\* the separator; non-empty text in front of the first such line is a unit
\* of its own; a text without separator is one unit; the line break that
\* ends a unit is not part of it; the images stay with the first unit
chunk_by_sectionAnywhere(chunks, section_separator) ==
    LET text == JoinLines(TextsOf(chunks))
        starts == {p \in 1 .. Len(text) :
                      StartsWith(SubSeq(text, p, Len(text)), section_separator)}
        pieces == Cut(text, starts \cup (IF text = <<>> THEN {} ELSE {1}))
        lines == [i \in 1 .. Len(pieces) |->
                    IF i < Len(pieces) THEN DropLast(pieces[i], 1) ELSE pieces[i]]
        sections == IF lines # <<>> /\ lines[1] = <<>> /\ 1 \notin starts
                    THEN Tail(lines) ELSE lines
        path == IF chunks = <<>> THEN <<>> ELSE chunks[1].path
    IN  IF sections = <<>>
        THEN <<Chunk(path, text, ConcatImages(chunks))>>
        ELSE [i \in 1 .. Len(sections) |->
                Chunk(path, sections[i], IF i = 1 THEN ConcatImages(chunks) ELSE <<>>)]

chunk_by_section(chunks, section_separator) ==
    LET text == JoinLines(TextsOf(chunks))
        starts == {p \in 1 .. Len(text) :
                      /\ p = 1 \/ text[p - 1] = "\n"
                      /\ StartsWith(SubSeq(text, p, Len(text)), section_separator)}
        pieces == Cut(text, starts \cup (IF text = <<>> THEN {} ELSE {1}))
        lines == [i \in 1 .. Len(pieces) |->
                    IF i < Len(pieces) THEN DropLast(pieces[i], 1) ELSE pieces[i]]
        sections == IF lines # <<>> /\ lines[1] = <<>> /\ 1 \notin starts
                    THEN Tail(lines) ELSE lines
        path == IF chunks = <<>> THEN <<>> ELSE chunks[1].path
    IN  IF sections = <<>>
        THEN <<Chunk(path, text, ConcatImages(chunks))>>
        ELSE [i \in 1 .. Len(sections) |->
                Chunk(path, sections[i], IF i = 1 THEN ConcatImages(chunks) ELSE <<>>)]

ChunkBySection ==
    /\ fn_pc = "call" /\ fn_call.fn = "chunk_by_section"
    /\ fn_out' = chunk_by_section(fn_call.chunks, fn_call.section_separator)
    /\ fn_pc' = "done"
    /\ UNCHANGED <<fn_call, pdfVars, scrapeVars, extractVars>>

\* ---------------------------------------------------------- chunk_agentic
\* the external model answers with the positions at which its sections
\* begin; the units are the sections of that answer, in number and content
chunk_agentic(chunks, boundaries) ==
    LET text == JoinLines(TextsOf(chunks))
        pieces == Cut(text, boundaries)
    IN  [i \in 1 .. Len(pieces) |->
            Chunk(chunks[1].path,
                  IF i < Len(pieces) THEN DropLast(pieces[i], 1) ELSE pieces[i],
                  IF i = 1 THEN ConcatImages(chunks) ELSE <<>>)]

ChunkAgentic ==
    /\ fn_pc = "call" /\ fn_call.fn = "chunk_agentic"
    /\ fn_out' = chunk_agentic(fn_call.chunks, fn_call.response)
    /\ fn_pc' = "done"
    /\ UNCHANGED <<fn_call, pdfVars, scrapeVars, extractVars>>

\* ---------------------------------------------- one _process_page task
\* the task of one page, and the chunk scrape_pdf builds from its result
ProcessPageCall ==
    /\ fn_pc = "call" /\ fn_call.fn = "_process_page"
    /\ fn_out' = LET r == PageTask(fn_call.include_input_images,
                                    fn_call.include_output_images, fn_call.out, 0)
                 IN  [task |-> r,
                      chunks |-> IF r.raised THEN <<>> ELSE BuildChunks(<<r.value>>)]
    /\ fn_pc' = "done"
    /\ UNCHANGED <<fn_call, pdfVars, scrapeVars, extractVars>>

\* ---------------------------------- the images of extract_page_content
\* one <img> of the page: no src, a data:image src decoded from base64, or a
\* src fetched as it is, then (unless it starts with http:// or https://)
\* with the scheme of the page, then with its scheme and host; ref.loads
\* are the attempts that would succeed; the images appended for it
ResolveImageBoth(ref, i) ==
    IF ref.src = "none" THEN <<>>
    ELSE IF ref.src = "data"
    THEN IF "base64" \in ref.loads THEN <<[ref |-> i, via |-> "base64"]>> ELSE <<>>
    ELSE IF "direct" \in ref.loads
         THEN <<[ref |-> i, via |-> "direct"]>>
         ELSE IF ref.src = "http"
         THEN <<>>
         ELSE (IF "scheme" \in ref.loads
               THEN <<[ref |-> i, via |-> "scheme"]>> ELSE <<>>)
              \o (IF "netloc" \in ref.loads
                  THEN <<[ref |-> i, via |-> "netloc"]>> ELSE <<>>)

ResolveImage(ref, i) ==
    IF ref.src = "none" THEN <<>>
    ELSE IF ref.src = "data"
    THEN IF "base64" \in ref.loads THEN <<[ref |-> i, via |-> "base64"]>> ELSE <<>>
    ELSE IF "direct" \in ref.loads
         THEN <<[ref |-> i, via |-> "direct"]>>
         ELSE IF ref.src = "http"
         THEN <<>>
         ELSE IF "scheme" \in ref.loads
         THEN <<[ref |-> i, via |-> "scheme"]>>
         ELSE IF "netloc" \in ref.loads
         THEN <<[ref |-> i, via |-> "netloc"]>>
         ELSE <<>>

\* extract_page_content on a page whose navigation, scrolling and DOM read
\* succeed: the text, then the images of fn_call.refs in document order
ExtractImages ==
    /\ fn_pc = "call" /\ fn_call.fn = "extract_page_content"
    /\ fn_out' =
          LET RECURSIVE Loaded(_)
              Loaded(i) == IF i > Len(fn_call.refs) THEN <<>>
                           ELSE ResolveImage(fn_call.refs[i], i) \o Loaded(i + 1)
              images == IF fn_call.include_output_images THEN Loaded(1) ELSE <<>>
          IN  [chunk |-> Chunk("url", Strip(JoinLines(<<Strip(fn_call.text)>>)), images),
               tiers |-> <<2>>]
    /\ fn_pc' = "done"
    /\ UNCHANGED <<fn_call, pdfVars, scrapeVars, extractVars>>

\* ------------------------------------------------------ the scroll loops
\* parse_webpage_with_vlm and extract_page_content up to their while loop:
\* the browser reports the height of the page
ScrollOpen ==
    /\ fn_pc = "call"
    /\ fn_call.fn \in {"parse_webpage_with_vlm", "extract_page_content"}
    /\ \E total_height \in {0, 1000, 5000} :
          fn_out' = [current_scroll_position |-> 0, scrolldowns |-> 0,
                     total_height |-> total_height, images |-> <<>>]
    /\ fn_pc' = "loop"
    /\ UNCHANGED <<fn_call, pdfVars, scrapeVars, extractVars>>

\* one test of the while condition: an iteration (a screenshot in
\* parse_webpage_with_vlm, the scroll, the new height, the break of
\* extract_page_content on an unchanged height), or the exit
ScrollLoopUnbounded ==
    /\ fn_pc = "loop"
    /\ LET vlm == fn_call.fn = "parse_webpage_with_vlm"
           max_scrolldowns == IF vlm THEN 3 ELSE 5
           position == fn_out.current_scroll_position + fn_call.viewport_height
       IN  IF /\ fn_out.current_scroll_position < fn_out.total_height
              /\ TRUE
           THEN \E new_height \in {0, 1000, fn_out.total_height, position + 1000} :
                  /\ fn_out' = [current_scroll_position |-> position,
                                scrolldowns |-> fn_out.scrolldowns + 1,
                                total_height |-> new_height,
                                images |-> IF vlm
                                           THEN Append(fn_out.images, fn_out.scrolldowns + 1)
                                           ELSE fn_out.images]
                  /\ fn_pc' = IF ~vlm /\ new_height = fn_out.total_height
                              THEN "done" ELSE "loop"
           ELSE /\ fn_pc' = "done"
                /\ UNCHANGED fn_out
    /\ UNCHANGED <<fn_call, pdfVars, scrapeVars, extractVars>>

ScrollLoop ==
    /\ fn_pc = "loop"
    /\ LET vlm == fn_call.fn = "parse_webpage_with_vlm"
           max_scrolldowns == IF vlm THEN 3 ELSE 5
           position == fn_out.current_scroll_position + fn_call.viewport_height
       IN  IF /\ fn_out.current_scroll_position < fn_out.total_height
              /\ fn_out.scrolldowns < max_scrolldowns
           THEN \E new_height \in {0, 1000, fn_out.total_height, position + 1000} :
                  /\ fn_out' = [current_scroll_position |-> position,
                                scrolldowns |-> fn_out.scrolldowns + 1,
                                total_height |-> new_height,
                                images |-> IF vlm
                                           THEN Append(fn_out.images, fn_out.scrolldowns + 1)
                                           ELSE fn_out.images]
                  /\ fn_pc' = IF ~vlm /\ new_height = fn_out.total_height
                              THEN "done" ELSE "loop"
           ELSE /\ fn_pc' = "done"
                /\ UNCHANGED fn_out
    /\ UNCHANGED <<fn_call, pdfVars, scrapeVars, extractVars>>

InitScroll ==
    /\ fn_call \in {[fn |-> f, viewport_height |-> v] :
                       f \in {"parse_webpage_with_vlm", "extract_page_content"},
                       v \in {600, 800, 1200}}
    /\ fn_pc = "call"
    /\ fn_out = <<>>
    /\ PdfIdle
    /\ ScrapeIdle
    /\ ExtractIdle

ScrollNext ==
    \/ ScrollOpen
    \/ ScrollLoop

\* the interpreter does not stop between two statements of a call
SpecScroll == InitScroll /\ [][ScrollNext]_vars /\ WF_vars(ScrollNext)

\* ------------------------------------------------------------- the calls
\* the calls of the functions, on at most len chunks
Calls(len) ==
    LET Separators == {<<"#", "#", " ">>, <<"#", "#", "#", " ">>}
        Sections == [name : {<<"A">>, <<"B">>},
                     body : {<<>>, <<"X">>, <<"#", "#", "#", " ", "s">>}]
        SectionText(sep, secs) ==
            JoinLines([i \in 1 .. Len(secs) |->
                          sep \o secs[i].name
                          \o IF secs[i].body = <<>> THEN <<>> ELSE <<"\n">> \o secs[i].body])
    IN
    {[fn |-> "detect_source_mimetype", source |-> s] : s \in Sources}
    \cup {[fn |-> "to_json", chunk |-> Chunk(SamplePath, t, im), text_only |-> o] :
            t \in SampleTexts \cup {<<" ", "a", "\n">>},
            im \in SeqUpTo({i \in Images : i.width = i.height}, 1), o \in BOOLEAN}
    \cup {[fn |-> "calculate_tokens", chunks |-> cs, text_only |-> o] :
            cs \in SeqUpTo({Chunk(SamplePath, t, im) :
                                t \in {<<>>, <<"a", "b", "c">>, <<"a", "b", "c", "d", "e">>},
                                im \in SeqUpTo({i \in Images : i.mode = "RGB"}, 1)}, len),
            o \in BOOLEAN}
    \cup {[fn |-> f, chunks |-> cs] :
            f \in {"chunk_by_page", "chunk_by_document"},
            cs \in SeqUpTo({Chunk(SamplePath, t, im) :
                                t \in {<<>>, <<"a">>},
                                im \in SeqUpTo({i \in Images : i.mode = "RGB"
                                                              /\ i.width = i.height}, 1)},
                           len)}
    \cup {[fn |-> "_process_page", include_input_images |-> i, include_output_images |-> o,
           out |-> r] :
            i \in BOOLEAN, o \in BOOLEAN,
            r \in ModelOutcomes
                  \cup {[ok |-> TRUE, content |-> c] :
                          c \in {<<" ", "A", "\n">>,
                                 Fence \o <<"p", "y", "\n", "B", "\n">> \o Fence,
                                 Fence \o <<"\n", "B", "\n">> \o Fence,
                                 <<"B", "\n">> \o Fence,
                                 Fence}}}
    \cup {[fn |-> "extract_page_content", text |-> x, include_output_images |-> o,
           refs |-> r] :
            x \in {<<>>, <<"W", " ">>}, o \in BOOLEAN,
            r \in SeqUpTo({[src |-> "none", loads |-> {}]}
                          \cup {[src |-> "data", loads |-> l] : l \in SUBSET {"base64"}}
                          \cup {[src |-> "http", loads |-> l] : l \in SUBSET {"direct"}}
                          \cup {[src |-> "relative", loads |-> l] :
                                  l \in SUBSET {"direct", "scheme", "netloc"}},
                          len)}
    \cup {[fn |-> "to_message", chunk |-> Chunk(pa, t, im), text_only |-> o,
           host_images |-> h, include_paths |-> ip] :
            pa \in {SamplePath}, t \in SeqUpTo({"a", "\n", "![a](x)"}, len),
            im \in SeqUpTo({[width |-> 100, height |-> 100, mode |-> "RGB",
                             exact |-> TRUE]}, len),
            o \in BOOLEAN, h \in BOOLEAN, ip \in BOOLEAN}
    \cup {[fn |-> "chunk_agentic", chunks |-> <<Chunk(SamplePath, <<"a", "\n", "b">>, im)>>,
           response |-> bs] :
            im \in SeqUpTo({i \in Images : i.mode = "RGB" /\ i.width = 100 /\ i.height = 100}, 1),
            bs \in SUBSET {1, 3}}
    \cup {[fn |-> "chunk_by_length", chunks |-> cs, max_tokens |-> b] :
            cs \in SeqUpTo({Chunk(SamplePath, t, im) :
                                t \in {<<>>, <<"a", "b", "c">>, <<"a", "b", "c", "d", "e">>},
                                im \in SeqUpTo({i \in Images : i.mode = "RGB" /\ i.width = 100},
                                               1)}, MaxItems),
            b \in {1, 2, 86, 1000}}
    \cup {[fn |-> "chunk_by_keywords", chunks |-> <<Chunk(SamplePath, t, im)>>,
           keywords |-> ks] :
            t \in SeqUpTo({"f", "F", "b", "x"}, MaxText),
            im \in SeqUpTo({i \in Images : i.mode = "RGB" /\ i.width = 100 /\ i.height = 100}, 1),
            ks \in {{}, {<<"f">>}, {<<"f">>, <<"B">>}, {<<"f", "b">>}}}
    \cup {[fn |-> "chunk_by_keywords", chunks |-> cs,
           keywords |-> {<<"f", "o", "o">>, <<"b", "a", "r">>}] :
            cs \in {<<Chunk(SamplePath, ExampleText, <<>>)>>,
                    <<Chunk(SamplePath, <<"f", "o", "o">>, <<>>),
                      Chunk(SamplePath, <<"B", "a", "r">>, <<>>)>>,
                    <<>>}}
    \cup {[fn |-> "chunk_by_section",
           chunks |-> <<Chunk(SamplePath, lead \o SectionText(sep, secs), <<>>)>>,
           section_separator |-> use] :
            lead \in {<<>>, <<"p", "\n">>, <<"\n">>}, sep \in Separators,
            secs \in SeqUpTo(Sections, MaxSections), use \in Separators}
    \cup {[fn |-> "chunk_by_section", chunks |-> cs, section_separator |-> <<"#", "#", " ">>] :
            cs \in SeqUpTo({Chunk(SamplePath, <<"#", "#", " ", "A">>, <<>>),
                            Chunk(SamplePath, <<>>, <<[width |-> 100, height |-> 100,
                                                       mode |-> "RGB", exact |-> TRUE]>>)},
                           len)}

InitCall ==
    /\ fn_call \in Calls(MaxUnits)
    /\ fn_pc = "call"
    /\ fn_out = <<>>
    /\ PdfIdle
    /\ ScrapeIdle
    /\ ExtractIdle

CallNext ==
    \/ Detect
    \/ DispatchDetected
    \/ ToJsonStep
    \/ FromJsonStep
    \/ CalculateTokensCall
    \/ ChunkByPage
    \/ ChunkByDocument
    \/ ChunkByLength
    \/ ChunkByKeywords
    \/ ChunkBySection
    \/ ChunkAgentic
    \/ ProcessPageCall
    \/ ToMessageCall
    \/ ExtractImages

SpecCall == InitCall /\ [][CallNext]_vars
InitExtract ==
    /\ ex_call \in ExtractCalls(MaxUnits)
    /\ ex_pc = "call"
    /\ ex_chunks = <<>>
    /\ PdfIdle
    /\ ScrapeIdle
    /\ CallIdle

SpecExtract == InitExtract /\ [][ExtractNext]_vars

Init ==
    /\ root \in RootCalls(MaxEntries)
    /\ stack = <<Frame(root.fn, root.node, <<>>, root.cm, root.pat)>>
    /\ exc = "none"
    /\ ret = NoRet
    /\ temp_fs = {}
    /\ temp_log = <<>>
    /\ chunk_log = <<>>
    /\ tmp_bytes = 0
    /\ tier_log = <<>>
    /\ PdfIdle
    /\ ExtractIdle
    /\ CallIdle

Next ==
    \/ FileDispatch
    \/ FileResume
    \/ FileChunkAndReturn
    \/ DirOpen
    \/ DirSkip
    \/ DirCallFile
    \/ DirRecurse
    \/ DirResume
    \/ DirReturn
    \/ ZipOpen
    \/ VideoOpen
    \/ VideoSegment
    \/ VideoReturn
    \/ YoutubeOpen
    \/ GithubOpen
    \/ UrlTweet
    \/ UrlCallYoutube
    \/ UrlCallGithub
    \/ UrlDownload
    \/ UrlWeb
    \/ TempDirReturn
    \/ Unwind

Spec == Init /\ [][Next]_vars

PdfNext ==
    \/ Submit
    \/ \E p \in Pages : StartTask(p)
    \/ \E p \in Pages : FinishTask(p)
    \/ \E p \in Pages : Collect(p)
    \/ CollectDone
    \/ Shutdown

InitPdf ==
    /\ num_pages \in 0 .. MaxPages
    /\ include_input_images \in BOOLEAN
    /\ include_output_images \in BOOLEAN
    /\ cpu_count \in 1 .. MaxCpu
    /\ model_out \in [0 .. (num_pages - 1) -> ModelOutcomes]
    /\ submitted = 0
    /\ task = [p \in 0 .. (num_pages - 1) |-> "none"]
    /\ task_result = [p \in 0 .. (num_pages - 1) |-> <<p, <<>>, NoImage>>]
    /\ task_exc = [p \in 0 .. (num_pages - 1) |-> NoExc]
    /\ collected = {}
    /\ page_results = <<>>
    /\ pdf_pc = "submit"
    /\ pdf_exc = NoExc
    /\ pdf_chunks = <<>>
    /\ ScrapeIdle
    /\ ExtractIdle
    /\ CallIdle

SpecPdf == InitPdf /\ [][PdfNext]_vars

\* ---------------------------------------------------------------- claims

\* C1: when scrape_pdf's VLM branch returns, the chunk at position i holds
\* the text and image that the task of page i returned, whatever the order
\* in which the page tasks completed and were collected.
PdfChunksInPageOrder ==
    pdf_pc = "returned" =>
        /\ Len(pdf_chunks) = num_pages
        /\ \A i \in Pages :
              /\ pdf_chunks[i + 1].text = task_result[i][2]
              /\ pdf_chunks[i + 1].images =
                    (IF task_result[i][3] # NoImage THEN <<task_result[i][3]>> ELSE <<>>)

\* C1 witness: scrape_pdf returned after collecting a later page before an
\* earlier one, the two pages having different texts.
PdfChunksInPageOrderWitness ==
    /\ pdf_pc = "returned"
    /\ Len(page_results) >= 2
    /\ page_results[1][1] > page_results[2][1]
    /\ page_results[1][2] # page_results[2][2]

\* C2: once scrape_pdf's VLM branch has finished and some page task raised,
\* scrape_pdf has raised the exception of a failed task and its chunk list
\* was never built: no partial list, no placeholder chunk.
PdfFailureAbortsDocument ==
    (pdf_pc \in {"returned", "raised"} /\ \E p \in Pages : task[p] = "raised") =>
        /\ pdf_pc = "raised"
        /\ pdf_chunks = <<>>
        /\ \E p \in Pages : task[p] = "raised" /\ pdf_exc = task_exc[p]

\* C2 witness: scrape_pdf raised although other pages had completed and
\* had already been stored in page_results.
PdfFailureAbortsDocumentWitness ==
    /\ pdf_pc = "raised"
    /\ page_results # <<>>
    /\ \E p \in Pages : task[p] = "done" /\ p \notin collected

\* whether some node of the tree has the outcome o
RECURSIVE HasOutcome(_, _)
HasOutcome(node, o) ==
    \/ node.outcome = o
    \/ \E i \in 1 .. Len(node.entries) : HasOutcome(node.entries[i], o)

\* the chunks a traversal returns when a raising entry contributes nothing
\* and every other entry contributes the chunks of its strategy
RECURSIVE ClaimedDirChunks(_, _, _, _)
RECURSIVE ClaimedFileChunks(_, _)
ClaimedFileChunks(e, path) ==
    IF Strategy(e.mime) = "scrape_zip"
    THEN IF e.outcome \in Raising THEN <<>> ELSE ClaimedDirChunks(e, path, FALSE, 1)
    ELSE IF LeafRaises(e) THEN <<>> ELSE LeafChunks(path, e)

ClaimedDirChunks(d, path, pat, i) ==
    IF i > Len(d.entries) THEN <<>>
    ELSE LET e == d.entries[i]
             here == IF SkipsEntry(e, pat) THEN <<>>
                     ELSE IF e.kind = "file" THEN ClaimedFileChunks(e, Append(path, i))
                     ELSE IF e.outcome \in Raising THEN <<>>
                     ELSE ClaimedDirChunks(e, Append(path, i), pat, 1)
         IN  here \o ClaimedDirChunks(d, path, pat, i + 1)

\* C3: a batch traversal whose files' strategies may raise returns normally
\* with the chunks of every entry whose strategy did not raise, a raising
\* file contributing no chunk (checked on trees without permission errors).
BatchSurvivesStrategyFailure ==
    (/\ stack = <<>>
     /\ root.fn \in {"scrape_directory", "scrape_zip"}
     /\ root.node.outcome = "ok"
     /\ ~HasOutcome(root.node, "PermissionError")) =>
        /\ Returned
        /\ ret.val = ClaimedDirChunks(root.node, <<>>, root.pat, 1)

\* C4: for a web-page url, a raising tier 1 is followed by tier 2, a
\* failing tier 2 by tier 3, and scrape_url raises only after tiers 2 and 3
\* have both been run.
WebTiersFallBack ==
    LET TiersRun == {tier_log[i] : i \in 1 .. Len(tier_log)}
        Tier1Raises ==
            ParseWebpageWithVlm(<<>>, root.url, root.include_output_images).raised
    IN  (stack = <<>> /\ root.fn = "scrape_url" /\ root.url.kind = "web") =>
            /\ (1 \in TiersRun /\ Tier1Raises) => 2 \in TiersRun
            /\ (2 \in TiersRun
                /\ \/ ~root.url.launch_ok
                   \/ root.url.t2_fails \in {"goto", "scroll", "content"}
                   \/ root.url.t2_fails = "images" /\ root.include_output_images)
                   => 3 \in TiersRun
            /\ Raised => {2, 3} \subseteq TiersRun

\* C5: scrape_url never returns a chunk list without any text and any
\* image, whatever kind of url it was given.
UrlResultNeverAllEmpty ==
    (root.fn = "scrape_url" /\ Returned) => ~AllEmpty(ret.val)

\* C8: when scrape_file or scrape_url returns, the caller's chunking method
\* has been applied exactly once, and the returned list is its result.
ChunkingAppliedOnce ==
    (root.fn \in {"scrape_file", "scrape_url"} /\ root.cm # "None" /\ Returned) =>
        /\ Len(chunk_log) = 1
        /\ chunk_log[1].cm = root.cm
        /\ ret.val = ApplyChunking(root.cm, chunk_log[1].input)

\* C9: when the user's call has returned or raised, no temporary directory
\* or file that it created exists any more.
TempResourcesRemoved ==
    (stack = <<>> /\ root.fn # "none") => temp_fs = {}

\* C10: a download whose body is larger than the limit never writes a byte
\* to the temporary file, and scrape_url raises.
OversizedDownloadRejected ==
    (/\ root.fn = "scrape_url" /\ root.url.kind = "file"
     /\ root.url.fetch_ok /\ root.url.body > FILESIZE_LIMIT_MB * 1024 * 1024) =>
        /\ tmp_bytes = 0
        /\ stack = <<>> => Raised

\* C6: no chunk made from a model reply has an empty text: a reply without
\* usable content makes the page task, and parse_webpage_with_vlm, raise.
ModelReplyNeverEmptyText ==
    /\ \A p \in Pages : task[p] = "done" => task_result[p][2] # <<>>
    /\ \A i \in 1 .. Len(pdf_chunks) : pdf_chunks[i].text # <<>>
    /\ (root.fn = "scrape_url" /\ root.url.kind = "web" /\ tier_log = <<1>> /\ Returned) =>
           \A i \in 1 .. Len(chunk_log[1].input) : chunk_log[1].input[i].text # <<>>

\* C7: every chunk returned by an extraction strategy has a non-empty text
\* or at least one image.
StrategiesReturnNoEmptyChunk ==
    \A i \in 1 .. Len(ex_chunks) : ex_chunks[i].text # <<>> \/ ex_chunks[i].images # <<>>

\* C11: in scrape_directory a PermissionError on one entry skips that entry
\* only: on trees whose only failures are permission errors the traversal
\* returns the chunks of all the entries before and after it.
PermissionErrorSkipsOneEntry ==
    (/\ stack = <<>>
     /\ root.fn = "scrape_directory"
     /\ root.node.outcome = "ok"
     /\ \A o \in Raising \ {"PermissionError"} : ~HasOutcome(root.node, o)) =>
        /\ Returned
        /\ ret.val = ClaimedDirChunks(root.node, <<>>, root.pat, 1)

\* C12: detect_source_mimetype never raises: it returns the notebook type
\* for .ipynb, else the type of the extension table, else the sniffed type,
\* and scrape_file reads a source of unrecognized type as plain text.
DetectNeverRaises ==
    LET source == fn_call.source
    IN  (fn_call.fn = "detect_source_mimetype" /\ fn_pc # "call") =>
            /\ fn_pc # "raised"
            /\ fn_out.mime =
                   IF source.extension = ".ipynb" THEN MimeTypes.ipynb
                   ELSE IF GuessType(source.extension) # MimeTypes.none
                   THEN GuessType(source.extension)
                   ELSE source.sniffed
            /\ (fn_pc = "dispatched" /\ fn_out.mime \in {MimeTypes.octet, Mime("inode", "x-empty", "")})
                   => fn_out.strategy = "fallback_plaintext"

\* C13: for a dict d that to_json produced (data-URI images), serializing
\* the chunk that from_json rebuilds from d gives a dict with the text of d
\* and with as many images as d.
JsonRoundTrip ==
    (fn_call.fn = "to_json" /\ fn_pc = "done") =>
        /\ fn_out.d2.text = fn_out.d.text
        /\ Len(fn_out.d2.images) = Len(fn_out.d.images)

\* a chunk whose text to_json had to strip and whose image came back from
\* the JPEG as another image
JsonRoundTripWitness ==
    /\ fn_call.fn = "to_json" /\ fn_pc = "done"
    /\ fn_out.d.text # <<>>
    /\ fn_out.d.text # fn_call.chunk.text
    /\ Len(fn_out.d.images) = 1
    /\ fn_out.chunk.images # fn_call.chunk.images

\* C14: calculate_tokens returns the sum of len(text) / 4 over the chunks
\* plus, per image, 85 when the image is at most 512x512 and otherwise
\* 170 * T + 85, T being the number of 512x512 tiles that cover the image
\* scaled so that its short side is 768.
TokensCountCoveringTiles ==
    LET Cover(n) == (n + 511) \div 512
        ImageCost(image) ==
            LET short_side == IF image.width < image.height THEN image.width
                              ELSE image.height
            IN  IF image.width <= 512 /\ image.height <= 512 THEN 85
                ELSE 170 * (Cover((image.width * 768) \div short_side)
                            * Cover((image.height * 768) \div short_side)) + 85
        chunks == fn_call.chunks
    IN  (fn_call.fn = "calculate_tokens" /\ fn_pc = "done" /\ ~fn_call.text_only) =>
            fn_out = Sum([i \in 1 .. Len(chunks) |->
                            Len(chunks[i].text)
                            + 4 * Sum([j \in 1 .. Len(chunks[i].images) |->
                                          ImageCost(chunks[i].images[j])])]) \div 4

KeywordsStartSegments ==
    LET text == JoinLines(TextsOf(fn_call.chunks))
        Occurs(s, k) == {p \in 1 .. Len(s) - Len(k) + 1 :
                            SubSeq(Lower(s), p, p + Len(k) - 1) = Lower(k)}
        hits == UNION {Occurs(text, k) : k \in fn_call.keywords}
        Start(j) == 1 + Sum([i \in 1 .. j - 1 |-> Len(fn_out[i].text)])
        foo == <<"f", "o", "o">>
        bar == <<"b", "a", "r">>
    IN  (fn_call.fn = "chunk_by_keywords" /\ fn_pc = "done") =>
            /\ \A p \in hits :
                  \E j \in 1 .. Len(fn_out) :
                      /\ Start(j) = p
                      /\ fn_out[j].text # <<>>
                      /\ fn_out[j].text = SubSeq(text, p, p + Len(fn_out[j].text) - 1)
            /\ \A p \in hits :
                  (p > 1 /\ \A q \in hits : p <= q) => fn_out[1].text = SubSeq(text, 1, p - 1)
            /\ Len(fn_out) <= Cardinality(hits) + 1
            /\ (text = ExampleText /\ fn_call.keywords = {foo, bar}) =>
                  /\ Len(fn_out) = 3
                  /\ Occurs(fn_out[1].text, foo) = {}
                  /\ StartsWith(fn_out[2].text, foo)
                  /\ Occurs(fn_out[2].text, <<"m", "i", "d", "d", "l", "e">>) # {}
                  /\ StartsWith(fn_out[3].text, bar)
                  /\ Occurs(fn_out[3].text, <<"e", "n", "d">>) # {}

\* a text with an upper-case occurrence behind a leading segment
KeywordsStartSegmentsWitness ==
    /\ fn_call.fn = "chunk_by_keywords" /\ fn_pc = "done"
    /\ fn_call.keywords = {<<"f">>, <<"B">>}
    /\ fn_call.chunks[1].text = <<"x", "F", "b">>
    /\ Len(fn_out) = 3

\* C17: the texts of the segments that chunk_by_keywords returns, put
\* together in order, are the text it was given.
KeywordsKeepText ==
    LET RECURSIVE Concat(_)
        Concat(ts) == IF ts = <<>> THEN <<>> ELSE Head(ts) \o Concat(Tail(ts))
    IN  (fn_call.fn = "chunk_by_keywords" /\ fn_pc = "done") =>
            Concat(TextsOf(fn_out)) = JoinLines(TextsOf(fn_call.chunks))

\* the text of the test, cut into its three segments
KeywordsKeepTextWitness ==
    /\ fn_call.fn = "chunk_by_keywords" /\ fn_pc = "done"
    /\ fn_call.chunks = <<Chunk(SamplePath, ExampleText, <<>>)>>
    /\ Len(fn_out) = 3

\* C18: a text of m sections, each beginning with the separator at the start
\* of a line and the first one on the first line, is split by
\* chunk_by_section into exactly m chunks, chunk j holding heading j, and
\* the chunks joined in order are the text.
SectionRoundTrip ==
    LET text == JoinLines(TextsOf(fn_call.chunks))
        sep == fn_call.section_separator
        heads == {p \in 1 .. Len(text) :
                     /\ p = 1 \/ text[p - 1] = "\n"
                     /\ StartsWith(SubSeq(text, p, Len(text)), sep)}
        Nth(j) == CHOOSE p \in heads : Cardinality({q \in heads : q < p}) = j - 1
        LineEnd(p) == CHOOSE e \in p .. Len(text) :
                         /\ e = Len(text) \/ text[e + 1] = "\n"
                         /\ \A q \in p .. e : text[q] # "\n"
        Contains(s, sub) == \E q \in 1 .. Len(s) - Len(sub) + 1 :
                               SubSeq(s, q, q + Len(sub) - 1) = sub
    IN  (fn_call.fn = "chunk_by_section" /\ fn_pc = "done" /\ 1 \in heads) =>
            /\ Len(fn_out) = Cardinality(heads)
            /\ \A j \in 1 .. Len(fn_out) :
                  Contains(fn_out[j].text, SubSeq(text, Nth(j), LineEnd(Nth(j))))
            /\ JoinLines(TextsOf(fn_out)) = text

\* two sections under the custom separator
SectionRoundTripWitness ==
    /\ fn_call.fn = "chunk_by_section" /\ fn_pc = "done"
    /\ fn_call.section_separator = <<"#", "#", "#", " ">>
    /\ StartsWith(fn_call.chunks[1].text, <<"#", "#", "#", " ">>)
    /\ Len(fn_out) = 2
    /\ fn_out[2].text = <<"#", "#", "#", " ", "B", "\n", "X">>

\* C19: chunk_by_document returns exactly one chunk for every input, an
\* empty list and image-only chunks included, and its images are the images
\* of the input chunks, in input order.
DocumentIsOneChunk ==
    LET RECURSIVE Flat(_)
        Flat(cs) == IF cs = <<>> THEN <<>>
                    ELSE Flat(SubSeq(cs, 1, Len(cs) - 1)) \o cs[Len(cs)].images
    IN  (fn_call.fn = "chunk_by_document" /\ fn_pc = "done") =>
            /\ Len(fn_out) = 1
            /\ fn_out[1].images = Flat(fn_call.chunks)

\* an image-only chunk in front of a chunk with text and another image
DocumentIsOneChunkWitness ==
    /\ fn_call.fn = "chunk_by_document" /\ fn_pc = "done"
    /\ Len(fn_call.chunks) = 2
    /\ fn_call.chunks[1].text = <<>>
    /\ fn_call.chunks[2].text # <<>>
    /\ Len(fn_out[1].images) = 2
    /\ fn_out[1].images[1] # fn_out[1].images[2]

\* C20: no chunking strategy returns a chunk whose text and image list are
\* both empty, whatever the input.
ChunkersReturnNoEmptyChunk ==
    (/\ fn_call.fn \in {"chunk_by_page", "chunk_by_document", "chunk_by_section",
                        "chunk_by_length", "chunk_by_keywords", "chunk_agentic"}
     /\ fn_pc = "done") =>
        \A i \in 1 .. Len(fn_out) : fn_out[i].text # <<>> \/ fn_out[i].images # <<>>

\* C21: every chunking strategy only moves chunk boundaries: the images of
\* the output, read in output order, are the images of the input in input
\* order, and the text of the input is in the output in the same order.
ChunkersOnlyMoveBoundaries ==
    LET RECURSIVE Flat(_)
        Flat(cs) == IF cs = <<>> THEN <<>>
                    ELSE Flat(SubSeq(cs, 1, Len(cs) - 1)) \o cs[Len(cs)].images
        RECURSIVE Letters(_)
        Letters(cs) == IF cs = <<>> THEN <<>>
                       ELSE Letters(SubSeq(cs, 1, Len(cs) - 1))
                            \o SelectSeq(cs[Len(cs)].text, LAMBDA c : c # "\n")
    IN  (/\ fn_call.fn \in {"chunk_by_page", "chunk_by_document", "chunk_by_section",
                            "chunk_by_length", "chunk_by_keywords", "chunk_agentic"}
         /\ fn_pc = "done") =>
            /\ Flat(fn_out) = Flat(fn_call.chunks)
            /\ Letters(fn_out) = Letters(fn_call.chunks)

\* C22: for a non-empty reply _process_page removes a leading fence together
\* with its language tag, markdown or any other, and a trailing fence; a
\* reply without fences comes back stripped of surrounding whitespace only.
FencesRemovedWithTag ==
    LET s1 == Strip(fn_call.out.content)
        RECURSIVE Tag(_)
        Tag(s) == IF s = <<>> \/ Head(s) \in {" ", "\n", "\t", "^"} THEN <<>>
                  ELSE <<Head(s)>> \o Tag(Tail(s))
        s2 == IF StartsWith(s1, Fence)
              THEN DropFirst(s1, Len(Fence) + Len(Tag(DropFirst(s1, Len(Fence)))))
              ELSE s1
        s3 == IF EndsWith(s2, Fence) THEN DropLast(s2, Len(Fence)) ELSE s2
    IN  (fn_call.fn = "_process_page" /\ fn_pc = "done" /\ ~fn_out.task.raised) =>
            fn_out.task.value[2] = s3

\* C23: _process_page renders the page once when include_input_images or
\* include_output_images is set and not at all otherwise, sends the image
\* to the model only with include_input_images, and the chunk carries the
\* image exactly when include_output_images is set.
PageImageFollowsFlags ==
    (fn_call.fn = "_process_page" /\ fn_pc = "done") =>
        /\ fn_out.task.renders =
              IF fn_call.include_input_images \/ fn_call.include_output_images THEN 1 ELSE 0
        /\ fn_out.task.sent # <<>> => fn_call.include_input_images
        /\ Len(fn_out.task.sent) <= 1
        /\ ~fn_out.task.raised =>
              /\ Len(fn_out.chunks) = 1
              /\ fn_out.chunks[1].images # <<>> <=> fn_call.include_output_images

\* a page rendered for the chunk only: not sent, attached
PageImageFollowsFlagsWitness ==
    /\ fn_call.fn = "_process_page" /\ fn_pc = "done"
    /\ ~fn_call.include_input_images /\ fn_call.include_output_images
    /\ fn_out.task.renders = 1
    /\ fn_out.task.sent = <<>>
    /\ fn_out.chunks # <<>>
    /\ fn_out.chunks[1].images = <<PageImage(0)>>

\* C24: scrape_pdf's VLM branch cancels no submitted page task: when it has
\* returned or raised, a failure of another page having been seen or not,
\* every page task has run _process_page to its result or its exception,
\* and none is queued or running.
NoPageTaskCancelled ==
    pdf_pc \in {"returned", "raised"} =>
        \A p \in Pages :
            \/ task[p] = "done" /\ task_result[p] = ProcessPage(p).value
            \/ task[p] = "raised" /\ task_exc[p] = ProcessPage(p).exc

\* the failure of one page was raised while another page, never collected,
\* has completed
NoPageTaskCancelledWitness ==
    /\ pdf_pc = "raised"
    /\ \E p \in Pages : p \notin collected /\ task[p] = "done"

\* C30: when scrape_pdf's VLM branch returns for a PDF of N pages it returns
\* N chunks, the results map holding each page index 0..N-1 once; each page
\* has one task, which ran once; the results map is written by the
\* collecting loop only, never by a worker.
PdfOneChunkPerPage ==
    /\ [](pdf_pc = "returned" =>
            /\ Len(pdf_chunks) = num_pages
            /\ \A p \in Pages :
                  /\ task[p] = "done"
                  /\ Cardinality({i \in 1 .. Len(page_results) : page_results[i][1] = p}) = 1
            /\ \A i \in 1 .. Len(page_results) : page_results[i][1] \in Pages)
    /\ [][/\ \A p \in Pages : task[p] \in {"done", "raised"} => task'[p] = task[p]
          /\ page_results' # page_results =>
                /\ pdf_pc = "collect"
                /\ task' = task
                /\ \E p \in Pages :
                      /\ collected' = collected \cup {p} /\ p \notin collected
                      /\ page_results' = Append(page_results, task_result[p])]_vars

\* a document of several pages returned after its pages were collected out
\* of page order
PdfOneChunkPerPageWitness ==
    /\ pdf_pc = "returned"
    /\ num_pages >= 2
    /\ page_results[1][1] # 0

\* C25: the scroll loops end within their bound whatever heights the browser
\* reports, a page that grows after every scroll included: at most 3
\* iterations and 3 screenshots in parse_webpage_with_vlm, at most 5
\* iterations in extract_page_content.
ScrollLoopsBounded ==
    LET scrolling == fn_call.fn \in {"parse_webpage_with_vlm", "extract_page_content"}
    IN  /\ []((scrolling /\ fn_pc \in {"loop", "done"}) =>
                 IF fn_call.fn = "parse_webpage_with_vlm"
                 THEN fn_out.scrolldowns <= 3 /\ Len(fn_out.images) = fn_out.scrolldowns
                 ELSE fn_out.scrolldowns <= 5)
        /\ [](scrolling => <>(fn_pc = "done"))

\* three screenshots of a page that was still growing
ScrollLoopsBoundedWitness ==
    /\ fn_call.fn = "parse_webpage_with_vlm" /\ fn_pc = "done"
    /\ Len(fn_out.images) = 3
    /\ fn_out.current_scroll_position < fn_out.total_height

\* C26: in tier 2 of extract_page_content an image reference that no
\* attempt resolves is skipped alone: the chunk holds one image for every
\* other reference, in document order, the tier-2 text is kept and tier 3
\* does not run.
UnresolvedImageSkippedAlone ==
    LET refs == fn_call.refs
        Resolves(r) ==
            \/ r.src = "data" /\ "base64" \in r.loads
            \/ r.src = "http" /\ "direct" \in r.loads
            \/ r.src = "relative" /\ r.loads # {}
        RECURSIVE Kept(_)
        Kept(i) == IF i > Len(refs) THEN <<>>
                   ELSE (IF Resolves(refs[i]) THEN <<i>> ELSE <<>>) \o Kept(i + 1)
        images == fn_out.chunk.images
    IN  (/\ fn_call.fn = "extract_page_content" /\ fn_pc = "done"
         /\ fn_call.include_output_images) =>
            /\ [k \in 1 .. Len(images) |-> images[k].ref] = Kept(1)
            /\ fn_out.chunk.text = Strip(fn_call.text)
            /\ fn_out.tiers = <<2>>

\* a reference that every attempt fails on, before one that the second
\* attempt resolves
UnresolvedImageSkippedAloneWitness ==
    /\ fn_call.fn = "extract_page_content" /\ fn_pc = "done"
    /\ fn_call.include_output_images
    /\ Len(fn_call.refs) = 2
    /\ fn_call.refs[1] = [src |-> "relative", loads |-> {}]
    /\ fn_call.refs[2] = [src |-> "relative", loads |-> {"scheme", "netloc"}]
    /\ fn_out.chunk.images = <<[ref |-> 2, via |-> "scheme"]>>
    /\ fn_out.chunk.text = <<"W">>

\* C27: to_message with host_images replaces the i-th image reference of the
\* text by the hosted URL of the i-th image, leaves the references beyond
\* the images as they are, and appends as image_url parts only the images
\* no reference took, so that no image is both inline and a part.
HostedImagesInlineOrParts ==
    LET Hosted == <<"H1", "H2", "H3", "H4">>
        Inline == <<"![image](H1)", "![image](H2)", "![image](H3)", "![image](H4)">>
        text == fn_call.chunk.text
        n == Len(fn_call.chunk.images)
        \* the number of references among the first k elements of the text
        RefsUpTo(k) == Cardinality({j \in 1 .. k : text[j] = "![a](x)"})
        expected == [k \in 1 .. Len(text) |->
                        IF text[k] = "![a](x)" /\ RefsUpTo(k) <= n
                        THEN Inline[RefsUpTo(k)] ELSE text[k]]
        taken == IF RefsUpTo(Len(text)) < n THEN RefsUpTo(Len(text)) ELSE n
        parts == Tail(fn_out.content)
    IN  (/\ fn_call.fn = "to_message" /\ fn_pc = "done"
         /\ fn_call.host_images /\ ~fn_call.text_only /\ ~fn_call.include_paths) =>
            /\ fn_out.content[1].text = Strip(expected)
            /\ parts = [i \in 1 .. n - taken |->
                           [type |-> "image_url", image_url |-> Hosted[taken + i]]]

\* C28: the text of the chunk of extract_page_content comes from one tier:
\* when the plain fetch (tier 3) gave text, the chunk holds no text of the
\* browser block (tier 2), whichever step of the block failed.
PageTextFromOneTier ==
    LET w == root.url
    IN  (/\ root.fn = "scrape_url" /\ w.kind = "web"
         /\ tier_log = <<2, 3>> /\ chunk_log # <<>>
         /\ w.t3_ok /\ w.t3_text # <<>>) =>
            \A i \in 1 .. Len(chunk_log) :
                LET text == chunk_log[i].input[1].text
                IN  /\ text = Strip(w.t3_text)
                    /\ \A k \in 1 .. Len(text) :
                          \A j \in 1 .. Len(w.t2_text) : text[k] # w.t2_text[j]

\* C29: scrape_spreadsheet accepts every media type scrape_file routes to
\* it (a type starting with application/vnd.ms-excel, or the
\* spreadsheetml.sheet type): a file of such a type whose reading does not
\* fail is never rejected with "Unsupported file format".
SpreadsheetRouteAccepted ==
    LET m == root.node.mime
    IN  (/\ root.fn = "scrape_file" /\ stack = <<>>
         /\ \/ m.top = "application" /\ m.sub = "vnd.ms-excel"
            \/ m = MimeTypes.xlsx
         /\ root.node.outcome \notin Raising) =>
            exc # "ValueError"

====
